---- MODULE Spec2Model ----
(***************************************************************************)
(* A model of the comment pipeline of macro_bot.py (class MacroBot).       *)
(*                                                                         *)
(* Texts are sequences of characters.  A character is written as a short   *)
(* ASCII name: a Hangul syllable by its romanisation ("yo", "ne", "jyo",   *)
(* "gam", "sa", ...), the jamo by one letter ("h" and "k" for the laughing *)
(* jamo, "T" and "U" for the two crying jamo), ASCII punctuation by        *)
(* itself.  The only whitespace character of the model is " ".             *)
(***************************************************************************)
EXTENDS Integers, Sequences, FiniteSets, TLC

\* ------------------------------------------------------------------------
\* String primitives (Python str / re semantics on sequences of characters)
\* ------------------------------------------------------------------------

IsWs(c) == c = " "

Max(a, b) == IF a >= b THEN a ELSE b

Min(a, b) == IF a <= b THEN a ELSE b

\* s[i:] with a 1-based i
From(s, i) == SubSeq(s, i, Len(s))

\* s[:n]
Take(s, n) == SubSeq(s, 1, Min(n, Len(s)))

StartsAt(s, sub, i) ==
    /\ i >= 1
    /\ i + Len(sub) - 1 <= Len(s)
    /\ SubSeq(s, i, i + Len(sub) - 1) = sub

\* sub in s
Contains(s, sub) == \E i \in 1..(Len(s) + 1) : StartsAt(s, sub, i)

EndsWith(s, suf) == StartsAt(s, suf, Len(s) - Len(suf) + 1)

HasChar(s, c) == \E i \in 1..Len(s) : s[i] = c

\* s.count(c) for a single character c
CountChar(s, c) == Cardinality({i \in 1..Len(s) : s[i] = c})

RECURSIVE RStripSet(_, _)
\* s.rstrip(chars)
RStripSet(s, chars) ==
    IF s # <<>> /\ s[Len(s)] \in chars
    THEN RStripSet(SubSeq(s, 1, Len(s) - 1), chars)
    ELSE s

RECURSIVE LStripSet(_, _)
LStripSet(s, chars) ==
    IF s # <<>> /\ s[1] \in chars THEN LStripSet(Tail(s), chars) ELSE s

\* s.strip(chars)
StripSet(s, chars) == LStripSet(RStripSet(s, chars), chars)

\* s.strip()
Strip(s) == StripSet(s, {" "})

RECURSIVE ReplaceAllFrom(_, _, _, _)
ReplaceAllFrom(s, i, old, new) ==
    IF i > Len(s) THEN <<>>
    ELSE IF StartsAt(s, old, i)
         THEN new \o ReplaceAllFrom(s, i + Len(old), old, new)
         ELSE <<s[i]>> \o ReplaceAllFrom(s, i + 1, old, new)

\* s.replace(old, new), old not empty
ReplaceAll(s, old, new) == ReplaceAllFrom(s, 1, old, new)

RECURSIVE FirstIndexFrom(_, _, _)
FirstIndexFrom(s, sub, i) ==
    IF i + Len(sub) - 1 > Len(s) THEN 0
    ELSE IF StartsAt(s, sub, i) THEN i ELSE FirstIndexFrom(s, sub, i + 1)

\* s.replace(old, new, 1)
ReplaceFirst(s, old, new) ==
    LET i == FirstIndexFrom(s, old, 1) IN
    IF i = 0 THEN s
    ELSE SubSeq(s, 1, i - 1) \o new \o From(s, i + Len(old))

RECURSIVE RunLen(_, _, _)
\* the length of the maximal run of characters of `set` that starts at s[i]
RunLen(s, i, set) ==
    IF i <= Len(s) /\ s[i] \in set THEN 1 + RunLen(s, i + 1, set) ELSE 0

RECURSIVE SubRunsFrom(_, _, _, _, _, _)
SubRunsFrom(s, i, pre, set, minRun, repl) ==
    IF i > Len(s) THEN <<>>
    ELSE IF StartsAt(s, pre, i) /\ RunLen(s, i + Len(pre), set) >= minRun
              /\ Len(pre) + RunLen(s, i + Len(pre), set) > 0
         THEN repl \o SubRunsFrom(s, i + Len(pre) + RunLen(s, i + Len(pre), set),
                                  pre, set, minRun, repl)
         ELSE <<s[i]>> \o SubRunsFrom(s, i + 1, pre, set, minRun, repl)

\* re.sub(pre + '[set]{minRun,}', repl, s): every leftmost maximal run
SubRuns(s, pre, set, minRun, repl) == SubRunsFrom(s, 1, pre, set, minRun, repl)

\* ------------------------------------------------------------------------
\* clean_comment
\* ------------------------------------------------------------------------

\* the one-syllable endings the double-ending pattern may start with
FirstEndings == {"jyo", "yo"}

\* the one-syllable endings that may follow
SecondEndings == {"yeo", "yo"}

\* X such that X + "yo" is an ending of the pattern (ne-yo, eo-yo, hae-yo, ...)
EndingStems == {"ne", "eo", "hae", "doe", "da", "ya", "kka", "na", "se", "ji"}

\* length of the first group matched at s[p], 0 when none matches
G1Len(s, p) ==
    IF p <= Len(s) /\ s[p] \in FirstEndings THEN 1
    ELSE IF p + 1 <= Len(s) /\ s[p] \in EndingStems /\ s[p + 1] = "yo" THEN 2
    ELSE 0

G2Len(s, p) ==
    IF p <= Len(s) /\ s[p] \in SecondEndings THEN 1
    ELSE IF p + 1 <= Len(s) /\ s[p] \in EndingStems /\ s[p + 1] = "yo" THEN 2
    ELSE 0

\* the pattern (ending)(ending)(\?|$) matches at p; allowQ: the \? alternative
DoubleEndingAt(s, p, allowQ) ==
    LET l1 == G1Len(s, p)
        l2 == G2Len(s, p + l1)
        q  == p + l1 + l2
    IN  /\ l1 > 0
        /\ l2 > 0
        /\ \/ q = Len(s) + 1
           \/ allowQ /\ q <= Len(s) /\ s[q] = "?"

RECURSIVE DropSecondEndingFrom(_, _, _)
DropSecondEndingFrom(s, p, allowQ) ==
    IF p > Len(s) THEN <<>>
    ELSE IF DoubleEndingAt(s, p, allowQ)
         THEN LET l1 == G1Len(s, p)
                  q  == p + l1 + G2Len(s, p + l1)
              IN  SubSeq(s, p, p + l1 - 1)
                  \o (IF q <= Len(s) THEN <<"?">> ELSE <<>>)
                  \o DropSecondEndingFrom(s, q + 1, allowQ)
         ELSE <<s[p]>> \o DropSecondEndingFrom(s, p + 1, allowQ)

\* re.sub(r'(ending)(ending)(\?|$)', r'\1\3', s) and, with allowQ false,
\* re.sub(r'(ending)(ending)$', r'\1', s)
DropSecondEnding(s, allowQ) == DropSecondEndingFrom(s, 1, allowQ)

\* step 3: a question mark that is not at the end moves to the end
MoveQuestionMark(s) ==
    IF HasChar(s, "?") /\ ~EndsWith(s, <<"?">>)
    THEN SelectSeq(s, LAMBDA c : c # "?") \o <<"?">>
    ELSE s

\* re.sub(r'(\S+)yong$', r'\1yo', s)
YongAtEnd(s) ==
    IF Len(s) >= 2 /\ s[Len(s)] = "yong" /\ ~IsWs(s[Len(s) - 1])
    THEN SubSeq(s, 1, Len(s) - 1) \o <<"yo">>
    ELSE s

\* re.sub(r'(\S+)yong\s', r'\1yo ', s)
YongBeforeSpace(s) ==
    [i \in 1..Len(s) |->
        IF /\ s[i] = "yong"
           /\ i >= 2
           /\ ~IsWs(s[i - 1])
           /\ i + 1 <= Len(s)
           /\ IsWs(s[i + 1])
        THEN "yo" ELSE s[i]]

\* the steps of clean_comment that remove doubled "yo" endings (step 6)
DoubledYo(s) ==
    LET a == SubRuns(s, <<>>, {"yo"}, 2, <<"yo">>)
        b == SubRuns(a, <<"ne">>, {"yo"}, 2, <<"ne", "yo">>)
        c == SubRuns(b, <<"eo">>, {"yo"}, 2, <<"eo", "yo">>)
        d == SubRuns(c, <<"hae">>, {"yo"}, 2, <<"hae", "yo">>)
        e == SubRuns(d, <<"doe">>, {"yo"}, 2, <<"doe", "yo">>)
        f == SubRuns(e, <<"da">>, {"yo"}, 2, <<"da", "yo">>)
        g == SubRuns(f, <<"ya">>, {"yo"}, 2, <<"ya", "yo">>)
        h == SubRuns(g, <<"jyo">>, {"yo"}, 1, <<"jyo">>)
    IN  SubRuns(h, <<"jyo">>, {"yo"}, 2, <<"jyo">>)

\* the end of the run of non-space characters that starts at s[i]
RunEnd(s, i) == i + RunLen(s, i, {c \in {s[k] : k \in 1..Len(s)} : ~IsWs(c)}) - 1

\* the position of the first "yo" after s[j], skipping whitespace; 0 if none
NextYoAfter(s, j) ==
    LET k == j + 1 + RunLen(s, j + 1, {" "}) IN
    IF k <= Len(s) /\ s[k] = "yo" THEN k ELSE 0

\* re.sub(r'(\S+)yo\s*yo', r'\1yo', s): the candidates for the first "yo" of
\* a match that starts at s[p]
YoPairs(s, p) ==
    {j \in (p + 1)..RunEnd(s, p) : s[j] = "yo" /\ NextYoAfter(s, j) # 0}

RECURSIVE JoinYoYoFrom(_, _)
JoinYoYoFrom(s, p) ==
    IF p > Len(s) THEN <<>>
    ELSE IF ~IsWs(s[p]) /\ YoPairs(s, p) # {}
         THEN LET j == CHOOSE x \in YoPairs(s, p) : \A y \in YoPairs(s, p) : y <= x
              IN  SubSeq(s, p, j) \o JoinYoYoFrom(s, NextYoAfter(s, j) + 1)
         ELSE <<s[p]>> \o JoinYoYoFrom(s, p + 1)

JoinYoYo(s) == JoinYoYoFrom(s, 1)

\* re.sub(r'(\S+)\s*yo$', r'\1yo', s)
JoinLastYo(s) ==
    LET n == Len(s)
        body == RStripSet(SubSeq(s, 1, n - 1), {" "})
    IN  IF n >= 2 /\ s[n] = "yo" /\ body # <<>> THEN body \o <<"yo">> ELSE s

RECURSIVE DropSpaceBeforeYoFrom(_, _)
DropSpaceBeforeYoFrom(s, p) ==
    IF p > Len(s) THEN <<>>
    ELSE LET n == RunLen(s, p, {" "}) IN
         IF n > 0 /\ p + n <= Len(s) /\ s[p + n] = "yo"
         THEN DropSpaceBeforeYoFrom(s, p + n)
         ELSE <<s[p]>> \o DropSpaceBeforeYoFrom(s, p + 1)

\* re.sub(r'\s+([yo])', r'\1', s)
DropSpaceBeforeYo(s) == DropSpaceBeforeYoFrom(s, 1)

clean_comment(comment) ==
    IF comment = <<>> THEN comment
    ELSE LET s1a == SubRuns(comment, <<>>, {"~"}, 3, <<"~">>)
             s1b == SubRuns(s1a, <<>>, {"!"}, 3, <<"!">>)
             s1c == SubRuns(s1b, <<>>, {"T"}, 3, <<"T", "T">>)
             s1d == SubRuns(s1c, <<>>, {"h", "k"}, 2, <<>>)
             s2  == SubRuns(s1d, <<>>, {"."}, 1, <<>>)
             s3  == MoveQuestionMark(s2)
             s4  == YongBeforeSpace(YongAtEnd(s3))
             s5  == DropSecondEnding(DropSecondEnding(s4, TRUE), FALSE)
             s6  == DoubledYo(s5)
             s7  == JoinLastYo(JoinYoYo(s6))
             s8  == DropSpaceBeforeYo(s7)
             s9  == SubRuns(s8, <<>>, {" "}, 1, <<" ">>)
         IN  Strip(s9)

clean_comment_final_only(comment) ==
    IF comment = <<>> THEN comment
    ELSE LET a == DoubledYo(comment)
             b == DropSecondEnding(DropSecondEnding(a, TRUE), FALSE)
             c == SubRuns(b, <<>>, {" "}, 1, <<" ">>)
         IN  Strip(c)

\* the characters has_meaningful_content does not count
FillerChars == {"h", "k", "~", "!", "?", " ", ".", ",", "-", "_", "^", "*"}

has_meaningful_content(comment_text) ==
    /\ comment_text # <<>>
    /\ Len(Strip(comment_text)) >= 2
    /\ Len(SelectSeq(Strip(comment_text), LAMBDA c : c \notin FillerChars)) >= 2

\* ------------------------------------------------------------------------
\* State
\* ------------------------------------------------------------------------
\* Sentiment keywords: _is_negative_content, _is_positive_comment,
\* _is_negative_comment
\* ------------------------------------------------------------------------

\* any(word in s for word in words)
ContainsAny(s, words) == \E w \in words : Contains(s, w)

NegativeContentKeywords ==
    { <<"ilh">>, <<"mang">>, <<"nun", "mul">>, <<"ul">>, <<"a", "swib">>,
      <<"hu", "hoe">>, <<"seul", "peu">>, <<"T">>, <<"U">>, <<"son", "sil">>,
      <<"jeog", "ja">>, <<"jwa", "jeol">>, <<"him", "deul">> }

_is_negative_content(text) ==
    text # <<>> /\ ContainsAny(text, NegativeContentKeywords)

PositiveCommentKeywords ==
    { <<"hwa", "i", "ting">>, <<"joh", "a">>, <<"dae", "bag">>, <<"chug", "ha">>,
      <<"bu", "reob">>, <<"joh", "ne">>, <<"joh", "da">>, <<"meos", "jyeo">>,
      <<"choe", "go">>, <<"eung", "won">>, <<"pa", "i", "ting">>, <<"wa">>,
      <<"heol">>, <<"jin", "jja">>, <<"gae", "joh">>, <<"jjang">>,
      <<"heo", "geog">>, <<"wa", "u">> }

_is_positive_comment(comment_text) ==
    comment_text # <<>> /\ ContainsAny(comment_text, PositiveCommentKeywords)

NegativeCommentKeywords ==
    { <<"a", "swib">>, <<"seul", "peu">>, <<"him", "deul">>, <<"hu", "hoe">>,
      <<"a", "kkab">>, <<"wi", "ro">>, <<"gong", "gam">> }

_is_negative_comment(comment_text) ==
    comment_text # <<>> /\ ContainsAny(comment_text, NegativeCommentKeywords)

\* ------------------------------------------------------------------------
\* analyze_comment_style (the fields the pipeline reads)
\* ------------------------------------------------------------------------

\* the decorations stripped from the right end (~ ! ? and the crying and
\* laughing jamo)
Decorations == {"~", "!", "?", "T", "U", "h", "k"}

\* the comments that are counted: the first 15, at least 2 characters long
StyleSample(existing_comments) ==
    SelectSeq(Take(existing_comments, 15), LAMBDA c : Len(Strip(c)) >= 2)

CountWhere(seq, P(_)) == Cardinality({i \in 1..Len(seq) : P(seq[i])})

\* the endings of the if / elif chain, in its order
EndingChain ==
    << <<"yo">>, <<"ne", "yo">>, <<"eo", "yo">>, <<"hae", "yo">>, <<"doe", "yo">>,
       <<"da", "yo">>, <<"se", "yo">>, <<"kka", "yo">>, <<"na", "yo">>, <<"ji", "yo">>,
       <<"jyo">>, <<"da">>, <<"eo">>, <<"hae">>, <<"ya">> >>

\* the ending appended for comment_clean: that of the first branch of the
\* chain whose endswith test succeeds, <<>> when none does
EndingIn(comment_clean) ==
    LET hits == {i \in 1..Len(EndingChain) : EndsWith(comment_clean, EndingChain[i])}
    IN  IF hits = {} THEN <<>>
        ELSE EndingChain[CHOOSE i \in hits : \A j \in hits : i <= j]

\* the list `endings` after the loop over the comments that are counted
StyleEndings(sample) ==
    SelectSeq([i \in 1..Len(sample) |-> EndingIn(RStripSet(Strip(sample[i]), Decorations))],
              LAMBDA e : e # <<>>)

\* how often the ending occurs in the list
Tally(endings, e) == Cardinality({i \in 1..Len(endings) : endings[i] = e})

\* Counter(endings).most_common(1)[0][0]: the first of the endings with the
\* highest count, '' for an empty list
most_common_ending(endings) ==
    IF endings = <<>> THEN <<>>
    ELSE endings[CHOOSE i \in 1..Len(endings) :
                   /\ \A j \in 1..Len(endings) :
                         Tally(endings, endings[j]) <= Tally(endings, endings[i])
                   /\ \A j \in 1..(i - 1) :
                         Tally(endings, endings[j]) < Tally(endings, endings[i])]

\* the record analyze_comment_style returns for its counts:
\* emoji_usage_rate is emoji_count / total_comments (0.0 without comments);
\* the has_* flags compare a count with 0.2 (0.15) times total_comments
StyleRecord(total, tilde, excl, cry, ending) ==
    [ ending          |-> ending,
      has_emoji       |-> total > 0 /\ 5 * (tilde + excl + cry) > total,
      has_tilde       |-> 5 * tilde > total,
      has_exclamation |-> 5 * excl > total,
      has_T           |-> 20 * cry > 3 * total,
      emoji_count     |-> tilde + excl + cry,
      total_comments  |-> total ]

\* the counts over the comments that are counted
StyleCounts(sample) ==
    StyleRecord(Len(sample),
                CountWhere(sample, LAMBDA c : HasChar(c, "~")),
                CountWhere(sample, LAMBDA c : HasChar(c, "!")),
                CountWhere(sample, LAMBDA c : HasChar(c, "T") \/ HasChar(c, "U")),
                most_common_ending(StyleEndings(sample)))

analyze_comment_style(existing_comments) == StyleCounts(StyleSample(existing_comments))

\* style['emoji_usage_rate'] < 0.1
RarelyDecorated(style) ==
    style.total_comments = 0 \/ 10 * style.emoji_count < style.total_comments

\* ------------------------------------------------------------------------
\* add_natural_typos: the set of texts it can return (random choices)
\* ------------------------------------------------------------------------

\* the texts the tone step may not exceed
ToneLimit == 10

\* what the final "yo" is replaced by
TypoEndings == {"yon", "yong", "yo"}

\* the word typos, in the order of the elif chain
WordTypos ==
    << [old |-> <<"joh", "a">>, new |-> <<"jo", "a">>],
       [old |-> <<"maj", "a">>, new |-> <<"ma", "ja">>],
       [old |-> <<"geu", "rae">>, new |-> <<"geu", "re">>],
       [old |-> <<"hwa", "i", "ting">>, new |-> <<"pa", "i", "ting">>] >>

\* a branch of the chain is taken when its word occurs and its draw succeeds;
\* the draws of the earlier branches can fail
WordTypoResults(comment) ==
    {comment} \cup
    { ReplaceFirst(comment, WordTypos[i].old, WordTypos[i].new) :
        i \in {j \in 1..Len(WordTypos) : Contains(comment, WordTypos[j].old)} }

\* every ending branch (ne-yo, eo-yo, ..., yo) rewrites the final "yo" only
EndingTypoResults(comment) ==
    IF comment[Len(comment)] = "yo"
    THEN {Append(SubSeq(comment, 1, Len(comment) - 1), e) : e \in TypoEndings}
    ELSE {comment}

add_natural_typos(comment) ==
    IF Len(comment) < 2 THEN {comment}
    ELSE {comment} \cup
         LET typed == UNION { IF c = comment THEN WordTypoResults(c) ELSE {c} :
                                c \in EndingTypoResults(comment) }
         IN  { IF Len(c) > ToneLimit THEN comment ELSE c : c \in typed }

\* ------------------------------------------------------------------------
\* The length cut that keeps the ending (enhance_tone_variation and
\* generate_style_matched_comment carry the same lines)
\* ------------------------------------------------------------------------

\* X of the two-syllable endings X + "yo" of the pattern
CutStems == {"ne", "eo", "hae", "doe", "da", "se", "kka", "na", "ji"}

\* the one-syllable endings of the pattern
CutEndings == {"yo", "jyo", "da", "eo", "hae", "doe", "kka", "na", "se", "ji", "ya"}

\* group 1 of the leftmost match of (yo|jyo|ne-yo|...|ya)$, <<>> without match
EndingOf(s) ==
    IF Len(s) >= 2 /\ s[Len(s)] = "yo" /\ s[Len(s) - 1] \in CutStems
    THEN SubSeq(s, Len(s) - 1, Len(s))
    ELSE IF Len(s) >= 1 /\ s[Len(s)] \in CutEndings THEN <<s[Len(s)]>>
    ELSE <<>>

\* the cut of the comment given its parts: max_body_length is
\* 10 - len(ending) - len(special_suffix)
CutParts(comment, comment_clean, ending, special_suffix) ==
    IF ending # <<>>
    THEN IF ToneLimit - Len(ending) - Len(special_suffix) > 0
         THEN Take(SubSeq(comment_clean, 1, Len(comment_clean) - Len(ending)),
                   ToneLimit - Len(ending) - Len(special_suffix))
                \o ending \o special_suffix
         ELSE ending \o special_suffix
    ELSE Take(comment, ToneLimit)

\* comment_clean is the comment without the decorations at its end
CutClean(comment, comment_clean) ==
    CutParts(comment, comment_clean, EndingOf(comment_clean),
             From(comment, Len(comment_clean) + 1))

\* the body of "if len(comment) > 10"
CutKeepingEnding(comment) ==
    CutClean(comment, Strip(RStripSet(comment, Decorations)))

LimitLength(comment) ==
    IF Len(comment) > ToneLimit THEN CutKeepingEnding(comment) ELSE comment

\* ------------------------------------------------------------------------
\* enhance_tone_variation: the set of texts it can return (random choices)
\* ------------------------------------------------------------------------

SpecialChars == <<"~", "!", "T", "U">>

RECURSIVE RemoveExcess(_, _)
\* while comment.count(ch) > 2: comment = comment.replace(ch, '', 1)
RemoveExcess(s, ch) ==
    IF CountChar(s, ch) > 2 THEN RemoveExcess(ReplaceFirst(s, <<ch>>, <<>>), ch) ELSE s

LimitSpecials(comment) ==
    IF CountChar(comment, "~") + CountChar(comment, "!")
         + CountChar(comment, "T") + CountChar(comment, "U") > 3
    THEN RemoveExcess(RemoveExcess(RemoveExcess(RemoveExcess(comment,
             SpecialChars[1]), SpecialChars[2]), SpecialChars[3]), SpecialChars[4])
    ELSE comment

\* the if / elif (/ else) that attaches the chosen mark
AppendMark(comment, candidate, overwrite) ==
    IF Len(comment) + Len(candidate) <= ToneLimit THEN comment \o candidate
    ELSE IF Len(comment) < ToneLimit THEN Take(comment \o candidate, ToneLimit)
    ELSE IF overwrite
         THEN SubSeq(comment, 1, Len(comment) - Len(candidate)) \o candidate
         ELSE comment

\* the mark of a comment that ends in a polite ending
HonorificMark(comment, styled, style) ==
    IF styled /\ style.has_T /\ _is_negative_comment(comment) THEN <<"T">>
    ELSE IF styled /\ style.has_exclamation /\ _is_positive_comment(comment) THEN <<"!">>
    ELSE IF styled /\ style.has_tilde THEN <<"~">>
    ELSE IF _is_negative_comment(comment) THEN <<"T">>
    ELSE IF _is_positive_comment(comment) THEN <<"!">>
    ELSE <<"~">>

\* the else branch: the comments it can produce
PlainMarks(comment, post_content) ==
    IF _is_negative_content(IF post_content # <<>> THEN post_content ELSE comment)
         \/ _is_negative_comment(comment)
    THEN {AppendMark(comment, c, TRUE) : c \in {<<"T">>, <<"T", "T">>}}
    ELSE IF _is_positive_comment(comment)
    THEN {AppendMark(comment, <<"!">>, FALSE)}
    ELSE {AppendMark(comment, c, TRUE) : c \in {<<"~">>, <<"!">>}}

\* the mark added under the style of the existing comments: should_add_emoji
\* is false when they are rarely decorated
AddMarkStyled(comment, comment_without_question, post_content, styled, style) ==
    (IF ~(styled /\ ~style.has_emoji /\ RarelyDecorated(style))
     THEN IF comment_without_question # <<>>
               /\ comment_without_question[Len(comment_without_question)] = "yo"
          THEN {AppendMark(comment, HonorificMark(comment, styled, style), FALSE)}
          ELSE {comment}
     ELSE {})
      \cup PlainMarks(comment, post_content)

\* the block that adds a mark to a comment without ~, ! and crying jamo;
\* comment_without_question was taken before the special characters were
\* limited
AddMark(comment, comment_without_question, post_content, existing_comments) ==
    IF HasChar(comment, "~") \/ HasChar(comment, "!") \/ HasChar(comment, "T")
    THEN {comment}
    ELSE AddMarkStyled(comment, comment_without_question, post_content,
                       existing_comments # <<>>,
                       analyze_comment_style(existing_comments))

\* while '~~' in comment ...; while '!!' in comment ...
CollapseMarks(comment) ==
    SubRuns(SubRuns(comment, <<>>, {"~"}, 2, <<"~">>), <<>>, {"!"}, 2, <<"!">>)

\* the variation of a final ~ or !
VaryLastMark(comment) ==
    IF comment # <<>> /\ comment[Len(comment)] = "~"
    THEN {comment} \cup
         { SubSeq(comment, 1, Len(comment) - 1) \o m :
             m \in {<<"~", "!">>, <<"yo", "~">>, <<"yo", "!">>} }
    ELSE IF comment # <<>> /\ comment[Len(comment)] = "!"
    THEN {comment, IF Len(comment) + 1 <= ToneLimit THEN Append(comment, "~") ELSE comment}
    ELSE {comment}

\* the values of `comment` when the length cut is reached
ToneTyped(comment_text, post_content, existing_comments) ==
    LET comment == Strip(comment_text)
        marked  == AddMark(LimitSpecials(comment), RStripSet(comment, {"?"}),
                           post_content, existing_comments)
        varied  == UNION {VaryLastMark(CollapseMarks(c)) : c \in marked}
    IN  UNION {add_natural_typos(c) : c \in varied}

enhance_tone_variation(comment_text, post_content, existing_comments) ==
    IF comment_text = <<>> THEN {comment_text}
    ELSE {LimitLength(c) : c \in ToneTyped(comment_text, post_content, existing_comments)}

\* ------------------------------------------------------------------------
\* generate_style_matched_comment: the set of texts it can return
\* ------------------------------------------------------------------------

\* "ji-chi-ne-yo", the comment of last resort
DefaultComment == <<"ji", "chi", "ne", "yo">>

\* the expressions taken from one existing comment
CandidatesOf(comment) ==
    IF Len(Strip(comment)) >= 2
    THEN LET clean == RStripSet(Strip(comment), Decorations) IN
         (IF 2 <= Len(clean) /\ Len(clean) <= 10 THEN {clean} ELSE {})
           \cup (IF Len(clean) > 6 THEN {Take(clean, 6)} ELSE {})
    ELSE {}

\* comment_candidates, as a set (random.choice picks any element)
comment_candidates(existing_comments) ==
    UNION {CandidatesOf(Take(existing_comments, 10)[i]) :
             i \in 1..Len(Take(existing_comments, 10))}

AllBaseComments ==
    { <<"him", "nae">>, <<"a", "swib">>, <<"gong", "gam">>, <<"wi", "ro">>,
      <<"joh", "a">>, <<"eung", "won">>, <<"hwa", "i", "ting">>,
      <<"da", "eum", "en">>, <<"jo", "sim">>, <<"chug", "ha">>,
      <<"bu", "reob">>, <<"dae", "bag">> }

LossWords ==
    { <<"ilh">>, <<"hu", "hoe">>, <<"cham", "dam">>,
      <<"jeong", "sin", "cha", "ri">>, <<"mos", "ha", "gess">> }

LossComments ==
    { <<"him", "nae">>, <<"a", "swib">>, <<"gong", "gam">>, <<"wi", "ro">>,
      <<"da", "eum", "en">>, <<"jo", "sim">> }

WinWords == { <<"ttass">>, <<"seong", "gong">>, <<"i", "deug">>, <<"joh", "a">> }

WinComments ==
    { <<"chug", "ha">>, <<"bu", "reob">>, <<"dae", "bag">>, <<"joh", "a">>,
      <<"eung", "won">> }

base_comments(post_content) ==
    IF post_content # <<>> /\ ContainsAny(post_content, LossWords) THEN LossComments
    ELSE IF post_content # <<>> /\ ContainsAny(post_content, WinWords) THEN WinComments
    ELSE AllBaseComments

\* the mark the base comment gets from the style of the existing comments
StyleMarks(comment, style) ==
    {comment}
      \cup (IF style.has_emoji /\ style.has_tilde THEN {Append(comment, "~")} ELSE {})
      \cup (IF style.has_emoji /\ style.has_exclamation THEN {Append(comment, "!")} ELSE {})

\* the chosen text after the length cut: an expression taken from the
\* existing comments or, when there is none, a base comment with the mark of
\* their style (the default comment when the cut leaves nothing meaningful)
ChosenFrom(candidates, existing_comments, post_content) ==
    IF candidates # {}
    THEN {LimitLength(selected) : selected \in candidates}
    ELSE { IF has_meaningful_content(cut) THEN cut ELSE DefaultComment :
             cut \in { LimitLength(marked) :
                         marked \in UNION { StyleMarks(b, analyze_comment_style(
                                                             existing_comments)) :
                                              b \in base_comments(post_content) } } }

\* the tone step and the final clean-up of the chosen text
StyledFrom(chosen, post_content, existing_comments) ==
    UNION { { clean_comment_final_only(c) :
                c \in enhance_tone_variation(selected, post_content, existing_comments) } :
            selected \in chosen }

generate_style_matched_comment(existing_comments, post_content) ==
    IF existing_comments = <<>> THEN {DefaultComment}
    ELSE StyledFrom(ChosenFrom(comment_candidates(existing_comments), existing_comments,
                               post_content),
                    post_content, existing_comments)

\* ------------------------------------------------------------------------
\* get_optimal_comment_length, is_comment_too_similar,
\* is_comment_relevant_to_post
\* ------------------------------------------------------------------------

base_limit == 10

RECURSIVE SumLen(_)
SumLen(seq) == IF seq = <<>> THEN 0 ELSE Len(Strip(Head(seq))) + SumLen(Tail(seq))

\* round(n / d) of Python 3 for n >= 0, d > 0: to the nearest, ties to even
RoundDiv(n, d) ==
    LET q == n \div d
        r == n % d
    IN  IF 2 * r > d \/ (2 * r = d /\ q % 2 = 1) THEN q + 1 ELSE q

\* avg_length is total / count; avg_length * 1.1 is 11 * total / (10 * count)
get_optimal_comment_length(existing_comments) ==
    LET valid == SelectSeq(existing_comments, LAMBDA c : Len(Strip(c)) >= 2)
        total == SumLen(valid)
        count == Len(valid)
    IN  IF count = 0 THEN base_limit
        ELSE IF total <= base_limit * count THEN base_limit
        ELSE Max(base_limit, Min(15, RoundDiv(11 * total, 10 * count)))

\* the blocks a[i .. i+k-1] = b[j .. j+k-1] inside a[alo..ahi], b[blo..bhi]
Blocks(a, alo, ahi, b, blo, bhi) ==
    { t \in (alo..ahi) \X (blo..bhi) \X (1..Min(ahi - alo + 1, bhi - blo + 1)) :
        /\ t[1] + t[3] - 1 <= ahi
        /\ t[2] + t[3] - 1 <= bhi
        /\ SubSeq(a, t[1], t[1] + t[3] - 1) = SubSeq(b, t[2], t[2] + t[3] - 1) }

\* SequenceMatcher.find_longest_match: the longest block, the earliest in a,
\* then the earliest in b
LongestBlock(blocks) ==
    CHOOSE t \in blocks :
        \A u \in blocks :
            \/ t[3] > u[3]
            \/ t[3] = u[3] /\ t[1] < u[1]
            \/ t[3] = u[3] /\ t[1] = u[1] /\ t[2] <= u[2]

RECURSIVE MatchedChars(_, _, _, _, _, _)
\* the total size of SequenceMatcher.get_matching_blocks()
MatchedChars(a, alo, ahi, b, blo, bhi) ==
    LET blocks == Blocks(a, alo, ahi, b, blo, bhi) IN
    IF alo > ahi \/ blo > bhi \/ blocks = {} THEN 0
    ELSE LET t == LongestBlock(blocks) IN
         t[3] + MatchedChars(a, alo, t[1] - 1, b, blo, t[2] - 1)
              + MatchedChars(a, t[1] + t[3], ahi, b, t[2] + t[3], bhi)

\* SequenceMatcher(None, a, b).ratio() >= 0.75, the ratio being 2 * M / T
SimilarTo(a, b) ==
    Len(a) + Len(b) > 0
      => 8 * MatchedChars(a, 1, Len(a), b, 1, Len(b)) >= 3 * (Len(a) + Len(b))

is_comment_too_similar(comment, existing_comments) ==
    /\ comment # <<>>
    /\ existing_comments # <<>>
    /\ LET valid  == SelectSeq(existing_comments, LAMBDA c : Len(Strip(c)) >= 2)
           recent8 == SubSeq(valid, Max(1, Len(valid) - 7), Len(valid))
       IN  \E i \in 1..Len(recent8) : SimilarTo(comment, recent8[i])

\* every path after the first test returns True
\* the characters re.sub(r'[~!?...\s\.\,\-]+', '', ...) removes
RelevanceFiller == {"~", "!", "?", "h", "k", "T", "U", " ", ".", ",", "-"}

\* post_clean (and comment_clean)
RelevanceClean(text) == SelectSeq(text, LAMBDA c : c \notin RelevanceFiller)

\* a relevance test that also refuses a body of 10 characters or less
relevance_needs_long_body(comment_text, post_content) ==
    comment_text # <<>> /\ Len(Strip(post_content)) > 10

\* the first test returns False; the test of the short body and every
\* later return statement (meaningless body, empathy comment, common
\* keyword, important word, default) return True
is_comment_relevant_to_post(comment_text, post_content) ==
    IF comment_text = <<>> \/ post_content = <<>> THEN FALSE
    ELSE IF Len(RelevanceClean(post_content)) < 5 THEN TRUE
    ELSE TRUE

\* ------------------------------------------------------------------------
\* Inputs of the pipeline: the configured key, the replies of the generation
\* service, the posts of the board
\* ------------------------------------------------------------------------

\* self.config['openai_api_key']: None, '', ' ' and a key
NoneKey == [isNone |-> TRUE, value |-> <<>>]

Keys ==
    { NoneKey,
      [isNone |-> FALSE, value |-> <<>>],
      [isNone |-> FALSE, value |-> <<" ">>],
      [isNone |-> FALSE, value |-> <<"Ls", "Lk">>] }

\* the content of a 200 answer: whether it carries the reason marker (and a
\* usable reason), how many comment markers it carries, and the text after
\* the comment marker (the whole content when there is no marker)
NoReply == [reason |-> "none", parts |-> "none", text |-> <<>>]

Replies ==
    { [reason |-> "ok",   parts |-> "one",  text |-> <<"him", "nae", "se", "yo">>],
      [reason |-> "ok",   parts |-> "one",
         text |-> <<"ne", "yo", "?", "?", "?", "?", "?", "?", "?">>],
      [reason |-> "ok",   parts |-> "one",
         text |-> <<"joh", "eun", " ", "geul", "i", "ne", "yo">>],
      [reason |-> "none", parts |-> "one",  text |-> <<" ", "hwa", "i", "ting", "yo">>],
      [reason |-> "bad",  parts |-> "one",  text |-> <<"him", "nae", "se", "yo">>],
      [reason |-> "ok",   parts |-> "one",  text |-> <<".", ".">>] }

\* how a request can end without a 200 answer: three statuses, the 15 second
\* timeout, a transport exception (or a 200 answer that is not the JSON the
\* code indexes)
FailureKinds == {"401", "429", "500", "timeout", "error"}

ServiceOutcomes ==
    {[kind |-> "200", reply |-> r] : r \in Replies}
      \cup {[kind |-> k, reply |-> NoReply] : k \in FailureKinds}

\* what the request log keeps of an answer: its status or failure, and for a
\* 200 answer whether the reply has both the reason and the comment marker
AnswerOf(o) ==
    IF o.kind = "200" /\ (o.reply.reason = "none" \/ o.reply.parts = "none")
    THEN "unmarked" ELSE o.kind

\* ------------------------------------------------------------------------
\* generate_ai_comment_retry and generate_ai_comment: the set of results.
\* A result is the returned text, the requests the call sent (the kind of
\* answer each got), the function the text comes from, and whether the call
\* ended in an exception instead of a return.
\* ------------------------------------------------------------------------

Result(text, requests, by) ==
    [text |-> text, requests |-> requests, by |-> by, raised |-> FALSE]

Raised(requests) ==
    [text |-> <<>>, requests |-> requests, by |-> "raise", raised |-> TRUE]

\* return self.generate_style_matched_comment(existing_comments or [], post_content),
\* `styled` being the texts that call can return
StyleResults(styled, requests) == {Result(t, requests, "style") : t \in styled}

Thanks == <<"gam", "sa">>

forbidden_comments ==
    { <<"joh", "eun", " ", "geul", " ", "gam", "sa", "hab", "ni", "da">>,
      <<"joh", "eun", " ", "jeong", "bo", " ", "gam", "sa", "hab", "ni", "da">>,
      <<"yu", "yong", "han", " ", "jeong", "bo", "ne", "yo">>,
      <<"yu", "yong", "han", " ", "jeong", "bo", " ", "gam", "sa", "hab", "ni", "da">>,
      <<"jal", " ", "ilg", "eoss", "seub", "ni", "da">>,
      <<"do", "um", "i", " ", "doe", "eoss", "eo", "yo">>,
      <<"do", "um", "i", " ", "dwaess", "eo", "yo">>,
      <<"do", "um", "i", " ", "doe", "eoss", "seub", "ni", "da">>,
      <<"gam", "sa", "hab", "ni", "da">>,
      <<"gam", "sa", "hae", "yo">>,
      <<"gam", "sa">>,
      <<"joh", "eun", " ", "geul">>,
      <<"yu", "yong", "han", " ", "jeong", "bo">> }

\* str.lower() on the characters of the model: the capital latin letters
LowerOf ==
    ("LA" :> "La") @@ ("LB" :> "Lb") @@ ("LC" :> "Lc") @@ ("LD" :> "Ld") @@
    ("LE" :> "Le") @@ ("LF" :> "Lf") @@ ("LG" :> "Lg") @@ ("LH" :> "Lh") @@
    ("LI" :> "Li") @@ ("LJ" :> "Lj") @@ ("LK" :> "Lk") @@ ("LL" :> "Ll") @@
    ("LM" :> "Lm") @@ ("LN" :> "Ln") @@ ("LO" :> "Lo") @@ ("LP" :> "Lp") @@
    ("LQ" :> "Lq") @@ ("LR" :> "Lr") @@ ("LS" :> "Ls") @@ ("LT" :> "Lt") @@
    ("LU" :> "Lu") @@ ("LV" :> "Lv") @@ ("LW" :> "Lw") @@ ("LX" :> "Lx") @@
    ("LY" :> "Ly") @@ ("LZ" :> "Lz")

Lower(s) == [i \in 1..Len(s) |-> IF s[i] \in DOMAIN LowerOf THEN LowerOf[s[i]] ELSE s[i]]

\* the two filters of generate_ai_comment between the reply and the length test
IsForbidden(comment) ==
    Contains(comment, Thanks) \/ ContainsAny(Lower(comment), forbidden_comments)

\* both markers in the reply
BothMarkers(reply) == reply.reason # "none" /\ reply.parts # "none"

\* the reason test of the branch with both markers and exactly two parts
BadReason(reply) == BothMarkers(reply) /\ reply.parts = "one" /\ reply.reason = "bad"

\* len(comment_clean) < 2 or (len(comment_clean) >= 3 and not has_proper_ending)
IncompleteSentence(comment) ==
    LET comment_clean == Strip(RStripSet(comment, Decorations)) IN
    Len(comment_clean) < 2 \/ (Len(comment_clean) >= 3 /\ EndingOf(comment_clean) = <<>>)

\* comment.strip('"').strip("'")
StripQuotes(comment) == StripSet(StripSet(comment, {"dq"}), {"'"})

Formal == <<"ib", "ni", "da">>

\* the comment the retry parses out of a reply
RetryParsed(reply) ==
    IF reply.parts = "many" THEN <<>> ELSE Strip(reply.text)

\* the tests of the 200 branch of generate_ai_comment_retry: `comment` is the
\* parsed comment and `cleaned` clean_comment of it without its quotes
RetryOnCleaned(reply, comment, cleaned, styled, existing_comments, requests) ==
    IF BadReason(reply) \/ IncompleteSentence(comment)
         \/ Len(cleaned) > get_optimal_comment_length(existing_comments)
    THEN StyleResults(styled, requests)
    ELSE {Result(clean_comment(ReplaceAll(ReplaceAll(cleaned, Formal, <<"yo">>),
                                          Formal \o <<".">>, <<"yo">>)),
                 requests, "retry")}

RetryOnComment(reply, comment, styled, existing_comments, requests) ==
    RetryOnCleaned(reply, comment, clean_comment(StripQuotes(comment)), styled,
                   existing_comments, requests)

\* the 200 branch of generate_ai_comment_retry
RetryOnReply(reply, styled, existing_comments, requests) ==
    RetryOnComment(reply, RetryParsed(reply), styled, existing_comments, requests)

\* the try block of generate_ai_comment_retry: api_key.strip() raises when
\* the key is None; a timeout and a transport exception are raised by the
\* request; every other status returns the style-matched comment
RetryTry(styled, existing_comments, api_key) ==
    IF api_key.isNone THEN {Raised(<<>>)}
    ELSE UNION { IF o.kind = "200"
                 THEN RetryOnReply(o.reply, styled, existing_comments, <<AnswerOf(o)>>)
                 ELSE IF o.kind \in {"timeout", "error"} THEN {Raised(<<AnswerOf(o)>>)}
                 ELSE StyleResults(styled, <<AnswerOf(o)>>) :
                 o \in ServiceOutcomes }

\* generate_ai_comment_retry without its except clause
RetryExceptMissing(r, styled) == {r}

\* except Exception: return self.generate_style_matched_comment(...)
RetryExcept(r, styled) ==
    IF r.raised THEN StyleResults(styled, r.requests) ELSE {r}

\* generate_ai_comment_retry without the test of retry_count
retry_without_count_test(styled, existing_comments, retry_count, api_key) ==
    UNION { RetryExcept(r, styled) :
              r \in RetryTry(styled, existing_comments, api_key) }

\* `styled` are the texts generate_style_matched_comment(existing_comments
\* or [], post_content) can return
generate_ai_comment_retry(styled, existing_comments, retry_count, api_key) ==
    IF retry_count <= 0 THEN StyleResults(styled, <<>>)
    ELSE UNION { RetryExcept(r, styled) :
                   r \in RetryTry(styled, existing_comments, api_key) }

\* "return await self.generate_ai_comment_retry(.., retry_count=1)" inside the
\* try block of generate_ai_comment, after the requests already sent
FirstRetry(retried, styled, requests) ==
    UNION { IF r.raised
            THEN StyleResults(styled, requests \o r.requests)
            ELSE {[r EXCEPT !.requests = requests \o @]} :
            r \in retried }

\* the tests of the 200 branch of generate_ai_comment: `quoted` is the parsed
\* comment without its quotes, `cleaned` the comment that is returned and
\* `again` what the retry returns
FirstOnCleaned(reply, comment, quoted, cleaned, again, styled, existing_comments, requests) ==
    IF ~BothMarkers(reply) \/ BadReason(reply) \/ IncompleteSentence(comment)
         \/ IsForbidden(quoted)
         \/ Len(quoted) > get_optimal_comment_length(existing_comments)
    THEN again
    ELSE IF Contains(cleaned, Thanks)
    THEN StyleResults(styled, requests)
    ELSE IF existing_comments # <<>> /\ is_comment_too_similar(cleaned, existing_comments)
    THEN UNION { IF r.text # <<>> /\ ~is_comment_too_similar(r.text, existing_comments)
                 THEN {r}
                 ELSE StyleResults(styled, r.requests) :
                 r \in again }
    ELSE {Result(cleaned, requests, "reply")}

FirstOnQuoted(reply, comment, quoted, retried, styled, existing_comments, requests) ==
    FirstOnCleaned(reply, comment, quoted,
                   clean_comment(ReplaceAll(ReplaceAll(ReplaceAll(quoted,
                       Formal, <<"yo">>), Formal \o <<".">>, <<"yo">>),
                       Formal \o <<"!">>, <<"yo">>)),
                   FirstRetry(retried, styled, requests),
                   styled, existing_comments, requests)

FirstOnComment(reply, comment, retried, styled, existing_comments, requests) ==
    FirstOnQuoted(reply, comment, StripQuotes(comment), retried, styled,
                  existing_comments, requests)

\* the 200 branch of generate_ai_comment
FirstOnReply(reply, retried, styled, existing_comments, requests) ==
    FirstOnComment(reply,
                   IF BothMarkers(reply) /\ reply.parts = "one"
                   THEN Strip(reply.text) ELSE <<>>,
                   retried, styled, existing_comments, requests)

\* `styled` are the texts generate_style_matched_comment can return and
\* `retried` the results of generate_ai_comment_retry(.., retry_count=1) for
\* the same post
generate_ai_comment(styled, retried, post_content, existing_comments, api_key) ==
    IF api_key.isNone \/ api_key.value = <<>> \/ Strip(api_key.value) = <<>>
    THEN StyleResults(styled, <<>>)
    ELSE IF post_content = <<>> \/ Len(Strip(post_content)) < 10
    THEN StyleResults(styled, <<>>)
    ELSE UNION { IF o.kind = "200"
                 THEN FirstOnReply(o.reply, retried, styled, existing_comments,
                                   <<AnswerOf(o)>>)
                 ELSE StyleResults(styled, <<AnswerOf(o)>>) :
                 o \in ServiceOutcomes }

\* ------------------------------------------------------------------------

VARIABLES
    comment_history,      \* self.comment_history: <<[text, ts], ...>>
    min_repeat_interval,  \* self.min_repeat_interval (seconds)
    now,                  \* time.time(), in seconds since the start of the run
    guardOp,              \* the RepetitionGuard method that ran last
    recent,               \* what the last is_comment_recent call returned
    recordLog,            \* every record_comment_usage call so far: <<[text, ts], ...>>
    cleanIn,              \* the argument of clean_comment
    cleanOut,             \* clean_comment(cleanIn)
    cleanTwice,           \* clean_comment(clean_comment(cleanIn))
    cleanPc,              \* "new" -> "once" -> "twice"
    openai_api_key,       \* self.config['openai_api_key']
    commented_posts,      \* self.commented_posts
    commented_posts_file, \* the lines of commented_posts.txt
    processed_urls,       \* processed_urls of run()
    returned,             \* how the last write_comment call ended
    runs,                 \* the runs of the program started so far
    runAttempts,          \* attempts of run(): posts opened so far
    pc,                   \* "run" (between posts) or the stage write_comment reached
    post,                 \* the post write_comment was called for last
    commentText,          \* comment_text of write_comment
    comment_source,       \* the function commentText comes from
    callRequests,         \* the answers to the requests of the last stage
    written,              \* the last write_comment returned True
    comment_registered,   \* comment_registered of write_comment, "unset" before the submit
    raised,               \* a generator call ended in an exception
    max_posts,            \* self.config['max_posts']
    max_board_pages,      \* self.config['max_board_pages']
    current_page,         \* self.current_page
    page_direction,       \* self.page_direction
    success_count,        \* success_count of run()
    callOp,               \* the function called on its own, "none" before the call
    callIn,               \* the arguments of that call
    callMid,              \* `comment` of the call before its length cut
    callOut               \* what the call returned

guardVars == <<comment_history, min_repeat_interval, now, guardOp, recent, recordLog>>

cleanVars == <<cleanIn, cleanOut, cleanTwice, cleanPc>>

pipeVars ==
    <<openai_api_key, commented_posts, commented_posts_file, processed_urls, returned,
      runs, runAttempts, pc, post, commentText, comment_source, callRequests, written,
      comment_registered, raised>>

callVars == <<callOp, callIn, callMid, callOut>>

loopVars == <<max_posts, max_board_pages, current_page, page_direction, success_count>>

vars == <<guardVars, cleanVars, pipeVars, callVars, loopVars>>

\* ------------------------------------------------------------------------
\* RepetitionGuard: _cleanup_comment_history, is_comment_recent,
\* record_comment_usage
\* ------------------------------------------------------------------------

\* the floor of the purge age: max(self.min_repeat_interval, 60)
MinKeep == 60

\* _cleanup_comment_history with the age compared by <= instead of <
cleanup_keeps_boundary(history, t, window) ==
    SelectSeq(history, LAMBDA e : t - e.ts <= Max(window, MinKeep))

\* the entries _cleanup_comment_history keeps at time t
_cleanup_comment_history(history, t, window) ==
    SelectSeq(history, LAMBDA e : t - e.ts < Max(window, MinKeep))

\* RecentHits with the window compared by <= instead of <
RecentHitsInclusive(history, t, window, text) ==
    SelectSeq(_cleanup_comment_history(history, t, window),
              LAMBDA e : e.text = text /\ (t - e.ts) <= window)

\* the entries of the purged history that make `text` a recent comment
RecentHits(history, t, window, text) ==
    SelectSeq(_cleanup_comment_history(history, t, window),
              LAMBDA e : e.text = text /\ (t - e.ts) < window)

\* is_comment_recent: the pair it returns (the history it leaves is
\* _cleanup_comment_history)
is_comment_recent(history, t, window, text) ==
    LET hits == RecentHits(history, t, window, text) IN
    IF hits # <<>>
    THEN [is_recent |-> TRUE, remaining |-> Max(0, window - (t - hits[1].ts))]
    ELSE [is_recent |-> FALSE, remaining |-> 0]

\* record_comment_usage: the history it leaves
record_comment_usage(history, t, window, text) ==
    Append(_cleanup_comment_history(history, t, window), [text |-> text, ts |-> t])

\* ------------------------------------------------------------------------
\* Bounds and inputs
\* ------------------------------------------------------------------------

\* the run is observed up to this time
MaxTime == 105

\* at most this many record_comment_usage calls are observed
MaxRecords == 2

\* the configured min_repeat_interval_sec values
Windows == {30, 90}

\* how much time passes between two operations
TickSteps == {15, 45}

\* "hwa-i-ting-yo", the same with one character changed, and another text
GuardTexts ==
    { <<"hwa", "i", "ting", "yo">>,
      <<"hwa", "i", "ting", "yong">>,
      <<"him", "nae", "yo">> }

\* the characters clean_comment is tried on, and the longest text
CleanAlphabet == {"ne", "yo", ".", "h", "?", " "}

MaxCleanLen == 4

RECURSIVE TextsUpTo(_, _)
\* all texts over `alphabet` of at most n characters
TextsUpTo(alphabet, n) ==
    IF n = 0 THEN {<<>>}
    ELSE LET shorter == TextsUpTo(alphabet, n - 1) IN
         shorter \cup {Append(s, c) : s \in {t \in shorter : Len(t) = n - 1}, c \in alphabet}

\* longer raw replies of the generation service
CleanSamples ==
    { <<"geu", "reoh", "ne", "yo", "yo", "yo", ".">>,
      <<"no", "gon", "ha", "jyo", "yeo", "?">>,
      <<"him", "nae", "yong">> }

NoRecent == [text |-> <<>>, is_recent |-> FALSE, remaining |-> 0]

GuardIdle ==
    /\ comment_history = <<>>
    /\ min_repeat_interval = 900
    /\ now = 0
    /\ guardOp = "init"
    /\ recent = NoRecent
    /\ recordLog = <<>>

CleanIdle ==
    /\ cleanIn = <<>>
    /\ cleanOut = <<>>
    /\ cleanTwice = <<>>
    /\ cleanPc = "new"

PipeIdle ==
    /\ openai_api_key = NoneKey
    /\ commented_posts = {}
    /\ commented_posts_file = <<>>
    /\ processed_urls = {}
    /\ returned = "none"
    /\ runs = 1
    /\ runAttempts = 0
    /\ pc = "run"
    /\ post = 0
    /\ commentText = <<>>
    /\ comment_source = "none"
    /\ callRequests = <<>>
    /\ written = FALSE
    /\ comment_registered = "unset"
    /\ raised = FALSE

\* the configuration defaults and the fields as __init__ leaves them
LoopIdle ==
    /\ max_posts = 10
    /\ max_board_pages = 1
    /\ current_page = 1
    /\ page_direction = 1
    /\ success_count = 0

\* no function has been called on its own
NoCall ==
    [post |-> 0, api_key |-> NoneKey, retry_count |-> 0, text |-> <<>>,
     existing_comments |-> <<>>, post_content |-> <<>>]

NoResult == [text |-> <<>>, requests |-> <<>>, by |-> "none", raised |-> FALSE]

CallIdle ==
    /\ callOp = "none"
    /\ callIn = NoCall
    /\ callMid = <<>>
    /\ callOut = NoResult

\* ------------------------------------------------------------------------
\* SpecGuard: the RepetitionGuard on its own
\* ------------------------------------------------------------------------

InitGuard ==
    /\ LoopIdle
    /\ comment_history = <<>>
    /\ min_repeat_interval \in Windows
    /\ now = 0
    /\ guardOp = "init"
    /\ recent = NoRecent
    /\ recordLog = <<>>
    /\ CleanIdle
    /\ PipeIdle
    /\ CallIdle

GuardRecord(text) ==
    /\ Len(recordLog) < MaxRecords
    /\ comment_history' = record_comment_usage(comment_history, now, min_repeat_interval, text)
    /\ recordLog' = Append(recordLog, [text |-> text, ts |-> now])
    /\ guardOp' = "record"
    /\ UNCHANGED <<min_repeat_interval, now, recent, cleanVars, pipeVars, callVars, loopVars>>

GuardCheck(text) ==
    /\ comment_history' = _cleanup_comment_history(comment_history, now, min_repeat_interval)
    /\ recent' = [text |-> text] @@ is_comment_recent(comment_history, now, min_repeat_interval, text)
    /\ guardOp' = "check"
    /\ UNCHANGED <<min_repeat_interval, now, recordLog, cleanVars, pipeVars, callVars, loopVars>>

GuardTick(d) ==
    /\ now + d <= MaxTime
    /\ now' = now + d
    /\ guardOp' = "tick"
    /\ UNCHANGED <<comment_history, min_repeat_interval, recent, recordLog, cleanVars, pipeVars, callVars, loopVars>>

NextGuard ==
    \/ \E text \in GuardTexts : GuardRecord(text)
    \/ \E text \in GuardTexts : GuardCheck(text)
    \/ \E d \in TickSteps : GuardTick(d)

SpecGuard == InitGuard /\ [][NextGuard]_vars

\* ------------------------------------------------------------------------
\* SpecClean: clean_comment applied once and twice to every short text
\* ------------------------------------------------------------------------

InitClean ==
    /\ LoopIdle
    /\ cleanIn \in TextsUpTo(CleanAlphabet, MaxCleanLen) \cup CleanSamples
    /\ cleanOut = <<>>
    /\ cleanTwice = <<>>
    /\ cleanPc = "new"
    /\ GuardIdle
    /\ PipeIdle
    /\ CallIdle

CleanOnce ==
    /\ cleanPc = "new"
    /\ cleanOut' = clean_comment(cleanIn)
    /\ cleanPc' = "once"
    /\ UNCHANGED <<cleanIn, cleanTwice, guardVars, pipeVars, callVars, loopVars>>

CleanAgain ==
    /\ cleanPc = "once"
    /\ cleanTwice' = clean_comment(cleanOut)
    /\ cleanPc' = "twice"
    /\ UNCHANGED <<cleanIn, cleanOut, guardVars, pipeVars, callVars, loopVars>>

NextClean == CleanOnce \/ CleanAgain

SpecClean == InitClean /\ [][NextClean]_vars

\* ------------------------------------------------------------------------
\* The board
\* ------------------------------------------------------------------------

\* posts the run loop opens (write_comment calls) in the observed run
MaxAttempts == 2

\* the seconds from one submitted comment to the next post
PostGap == 45

\* "o-neul nal-ssi-ga cham malg-go tta-tteus-hab-ni-da", a body of 17 characters
LongBody ==
    <<"o", "neul", " ", "nal", "ssi", "ga", " ", "cham", " ", "malg", "go", " ",
      "tta", "tteus", "hab", "ni", "da">>

\* the posts of the board: the body and the comments already under it
Board ==
    << [post_content |-> LongBody,
        existing_comments |-> << <<"hwa", "i", "ting", "yo">> >>],
       [post_content |-> <<"an", "nyeong", "ha", "se", "yo">>,
        existing_comments |-> << <<"h", "h", ".", ".">>, <<"gam", "sa", "hae", "yo">> >>],
       [post_content |-> <<"an", "nyeong", "ha", "se", "yo">>,
        existing_comments |-> <<>>],
       [post_content |-> <<>>,
        existing_comments |-> << <<"hwa", "i", "ting", "yo">> >>] >>

Posts == 1..Len(Board)

\* ------------------------------------------------------------------------
\* What the generators can return for each post of the board and each key
\* ------------------------------------------------------------------------

StyleOf ==
    [p \in Posts |->
       generate_style_matched_comment(Board[p].existing_comments, Board[p].post_content)]

\* generate_ai_comment_retry reads retry_count only to compare it with 0
RetryFrom(style) ==
    [p \in Posts |-> [k \in Keys |->
       generate_ai_comment_retry(style[p], Board[p].existing_comments, 1, k)]]

GenerateFrom(style, retry) ==
    [p \in Posts |-> [k \in Keys |->
       generate_ai_comment(style[p], retry[p][k], Board[p].post_content,
                           Board[p].existing_comments, k)]]

GeneratorsFrom(style, retry) ==
    [style |-> style, retry |-> retry, generate |-> GenerateFrom(style, retry)]

GeneratorsWith(style) == GeneratorsFrom(style, RetryFrom(style))

\* .style[p], .retry[p][k], .generate[p][k]: what generate_style_matched_comment,
\* generate_ai_comment_retry and generate_ai_comment can return for the post
\* p under the key k
Generators == GeneratorsWith(StyleOf)

\* ------------------------------------------------------------------------
\* ensure_non_repeating_comment for the post ctx.p: the set of results.
\* ctx.styled and ctx.retried are what generate_style_matched_comment and
\* generate_ai_comment_retry can return for the post
\* ------------------------------------------------------------------------

\* the rounds of the loop
max_attempts == 3

\* the tone step of ensure_non_repeating_comment
EnsureTone(ctx, text, requests, by) ==
    { Result(e, requests, by) :
        e \in enhance_tone_variation(text, Board[ctx.p].post_content,
                                     Board[ctx.p].existing_comments) }

\* the text of the lines after the loop, before its tone step
FallbackText(ctx, f) ==
    IF has_meaningful_content(f) THEN [text |-> f, by |-> "style"]
    ELSE [text |-> DefaultComment, by |-> "default"]

\* the alternative of one round: the retry for the first two, the
\* style-matched comment for the last
Alternatives(ctx, attempts) ==
    IF attempts = max_attempts - 1
    THEN StyleResults(ctx.styled, <<>>)
    ELSE ctx.retried

\* "if alt_comment == comment_text": the texts the round goes on with
MadeDistinct(ctx, alt, comment_text) ==
    IF alt.text # comment_text THEN {[text |-> alt.text, by |-> alt.by]}
    ELSE IF has_meaningful_content(Append(alt.text, "~"))
    THEN {[text |-> Append(alt.text, "~"), by |-> alt.by]}
    ELSE {FallbackText(ctx, f) : f \in ctx.styled}

\* what a round, or the lines after the loop (round max_attempts), hands to
\* the tone step: the text, the function it comes from, the requests sent
\* and the round that follows
ToTone(ctx, attempts, cur) ==
    IF attempts >= max_attempts
    THEN { FallbackText(ctx, IF f = ctx.original THEN Append(f, "~") ELSE f)
             @@ [requests |-> cur.requests, next |-> max_attempts + 1] :
           f \in ctx.styled }
    ELSE UNION {
           IF alt.raised \/ alt.text = <<>>
           THEN { [text |-> <<>>, by |-> alt.by, requests |-> cur.requests \o alt.requests,
                   next |-> IF alt.raised THEN max_attempts + 1 ELSE max_attempts] }
           ELSE { d @@ [requests |-> cur.requests \o alt.requests, next |-> attempts + 1] :
                  d \in MadeDistinct(ctx, alt, cur.text) } :
           alt \in Alternatives(ctx, attempts) }

RECURSIVE EnsureFrom(_, _, _)
\* the loop, from the round `attempts` on, holding the comment `cur`
EnsureFrom(ctx, attempts, cur) ==
    IF attempts < max_attempts
         /\ ~is_comment_recent(ctx.history, ctx.t, ctx.window, cur.text).is_recent
    THEN {cur}
    ELSE UNION {
           IF d.by = "raise" THEN {Raised(d.requests)}
           ELSE IF d.text = <<>> THEN EnsureFrom(ctx, max_attempts, Result(<<>>, d.requests, d.by))
           ELSE UNION { IF d.next > max_attempts THEN {e} ELSE EnsureFrom(ctx, d.next, e) :
                        e \in EnsureTone(ctx, d.text, d.requests, d.by) } :
           d \in ToTone(ctx, attempts, cur) }

\* an ensure_non_repeating_comment that asks for another comment without
\* testing the one it was given
ensure_always_regenerates(comment_text, p, api_key, history, t, window, gen) ==
    gen.retry[p][api_key]

ensure_non_repeating_comment(comment_text, p, api_key, history, t, window, gen) ==
    EnsureFrom([ p |-> p, history |-> history, t |-> t, window |-> window,
                 original |-> comment_text, styled |-> gen.style[p],
                 retried |-> gen.retry[p][api_key] ],
               0, Result(comment_text, <<>>, "given"))

\* ------------------------------------------------------------------------
\* write_comment for the post p, stage by stage
\* ------------------------------------------------------------------------

\* the generation stage: generate_ai_comment and the last test for "gam-sa"
\* when the body has more than 10 characters, the style-matched comment
\* otherwise
GenerationStage(gen, p, api_key) ==
    IF Board[p].post_content # <<>> /\ Len(Strip(Board[p].post_content)) > 10
    THEN UNION { IF ~r.raised /\ Contains(r.text, Thanks)
                 THEN StyleResults(gen.style[p], r.requests)
                 ELSE {r} :
                 r \in gen.generate[p][api_key] }
    ELSE StyleResults(gen.style[p], <<>>)

\* the regeneration of the round clean_attempts of the content loop:
\* generate_ai_comment_retry with retry_count 1, then 2, then the
\* style-matched comment
Regenerated(gen, p, api_key, clean_attempts) ==
    IF clean_attempts \in {0, 1} THEN gen.retry[p][api_key]
    ELSE StyleResults(gen.style[p], <<>>)

\* the comment of last resort when the loop ends without a usable comment
ForcedDefault(cur) ==
    IF has_meaningful_content(cur.text) THEN cur
    ELSE Result(DefaultComment, cur.requests, "default")

RECURSIVE ContentLoop(_, _, _, _, _)
\* the content loop and the default after it
ContentLoop(gen, p, api_key, clean_attempts, cur) ==
    IF cur.raised THEN {cur}
    ELSE IF has_meaningful_content(cur.text) \/ clean_attempts >= 3
    THEN {ForcedDefault(cur)}
    ELSE UNION { IF r.raised THEN {Raised(cur.requests \o r.requests)}
                 ELSE ContentLoop(gen, p, api_key, clean_attempts + 1,
                                  [r EXCEPT !.requests = cur.requests \o @]) :
                 r \in Regenerated(gen, p, api_key, clean_attempts) }

\* the generation stage, the content loop and the default comment
Composed(gen, p, api_key) ==
    UNION { ContentLoop(gen, p, api_key, 0, g) : g \in GenerationStage(gen, p, api_key) }

ComposedFrom(gen) == [p \in Posts |-> [k \in Keys |-> Composed(gen, p, k)]]

\* what the first lines of write_comment can hold for each post and key
ComposedOf == ComposedFrom(Generators)

\* ------------------------------------------------------------------------
\* Spec: a run of the bot over the posts of the board
\* ------------------------------------------------------------------------

Init ==
    /\ LoopIdle
    /\ comment_history = <<>>
    /\ min_repeat_interval \in Windows
    /\ now = 0
    /\ guardOp = "init"
    /\ recent = NoRecent
    /\ recordLog = <<>>
    /\ CleanIdle
    /\ CallIdle
    /\ openai_api_key \in Keys
    /\ commented_posts = {}
    /\ commented_posts_file = <<>>
    /\ processed_urls = {}
    /\ returned = "none"
    /\ runs = 1
    /\ runAttempts = 0
    /\ pc = "run"
    /\ post = 0
    /\ commentText = <<>>
    /\ comment_source = "none"
    /\ callRequests = <<>>
    /\ written = FALSE
    /\ comment_registered = "unset"
    /\ raised = FALSE

\* load_commented_posts: the stripped, non-empty lines of the file
load_commented_posts(file) == {file[i] : i \in 1..Len(file)}

\* save_commented_post: the URL is added to the set and appended to the file
save_commented_post(post_url) ==
    /\ commented_posts' = commented_posts \cup {post_url}
    /\ commented_posts_file' = Append(commented_posts_file, post_url)

\* get_next_post_link without the test against self.commented_posts
next_link_ignoring_saved(all_urls, commented, processed) ==
    {url \in all_urls : url \notin processed}

\* get_next_post_link: valid_urls, any of which random.choice can return;
\* None when it is empty
get_next_post_link(all_urls, commented, processed) ==
    {url \in all_urls : url \notin commented /\ url \notin processed}

\* the age of a post in hours when write_comment reads its date
PostAges == {1, 25}

\* a stage of write_comment ends with the result r of its generator calls;
\* an exception leaves write_comment through its except clause (return
\* False), and so does an empty text after ensure_non_repeating_comment
Adopt(r, nextPc) ==
    /\ commentText' = r.text
    /\ comment_source' = IF r.by = "given" THEN comment_source ELSE r.by
    /\ callRequests' = r.requests
    /\ raised' = (raised \/ r.raised)
    /\ pc' = IF r.raised THEN "run" ELSE nextPc
    /\ returned' = IF r.raised THEN "raised" ELSE IF nextPc = "run" THEN "empty" ELSE "none"

\* run(): get_next_post_link picks a post and write_comment opens it; a post
\* older than 24 hours is left, a post without comments is saved and left
StartPost(p, hours_ago) ==
    /\ pc = "run"
    /\ runAttempts < MaxAttempts
    /\ p \in get_next_post_link(Posts, commented_posts, processed_urls)
    /\ runAttempts' = runAttempts + 1
    /\ post' = p
    /\ commentText' = <<>>
    /\ comment_source' = "none"
    /\ callRequests' = <<>>
    /\ written' = FALSE
    /\ comment_registered' = "unset"
    /\ IF hours_ago > 24
       THEN /\ pc' = "run"
            /\ returned' = "old"
            /\ UNCHANGED <<commented_posts, commented_posts_file, loopVars>>
       ELSE IF Board[p].existing_comments = <<>>
       THEN /\ pc' = "run"
            /\ returned' = "no_comments"
            /\ save_commented_post(p)
       ELSE /\ pc' = "open"
            /\ returned' = "none"
            /\ UNCHANGED <<commented_posts, commented_posts_file, loopVars>>
    /\ UNCHANGED <<guardVars, cleanVars, callVars, openai_api_key, processed_urls, runs,
                   raised, loopVars>>

\* write_comment: the generation stage, the content loop and the default
\* comment
Generate ==
    /\ pc = "open"
    /\ \E r \in ComposedOf[post][openai_api_key] : Adopt(r, "content")
    /\ UNCHANGED <<guardVars, cleanVars, callVars, openai_api_key, commented_posts,
                   commented_posts_file, processed_urls, runs, runAttempts, post, written, comment_registered, loopVars>>

\* write_comment: clean_comment and the relevance test, which saves and
\* leaves the post when it fails
CleanAndCheck ==
    /\ pc = "content"
    /\ commentText' = clean_comment(commentText)
    /\ IF is_comment_relevant_to_post(commentText', Board[post].post_content)
       THEN /\ pc' = "cleaned"
            /\ returned' = "none"
            /\ UNCHANGED <<commented_posts, commented_posts_file, loopVars>>
       ELSE /\ pc' = "run"
            /\ returned' = "irrelevant"
            /\ save_commented_post(post)
    /\ callRequests' = <<>>
    /\ UNCHANGED <<guardVars, cleanVars, callVars, openai_api_key, processed_urls, runs,
                   runAttempts, post, comment_source, written, comment_registered, raised, loopVars>>

\* write_comment: ensure_non_repeating_comment (is_comment_recent purges the
\* history); an empty result ends write_comment
AvoidRepeat ==
    /\ pc = "cleaned"
    /\ comment_history' =
           _cleanup_comment_history(comment_history, now, min_repeat_interval)
    /\ \E r \in ensure_non_repeating_comment(commentText, post, openai_api_key,
                                             comment_history, now, min_repeat_interval,
                                             Generators) :
          Adopt(r, IF r.text = <<>> THEN "run" ELSE "distinct")
    /\ UNCHANGED <<min_repeat_interval, now, guardOp, recent, recordLog, cleanVars, callVars,
                   openai_api_key, commented_posts, commented_posts_file, processed_urls,
                   runs, runAttempts, post, written, comment_registered, loopVars>>

\* write_comment: tone variation and the final clean-up give the text that
\* is typed into the comment field
ToneAndClean ==
    /\ pc = "distinct"
    /\ \E e \in enhance_tone_variation(commentText, Board[post].post_content,
                                       Board[post].existing_comments) :
          commentText' = clean_comment_final_only(e)
    /\ pc' = "final"
    /\ callRequests' = <<>>
    /\ UNCHANGED <<guardVars, cleanVars, callVars, openai_api_key, commented_posts,
                   commented_posts_file, processed_urls, returned, runs, runAttempts, post,
                   comment_source, written, comment_registered, raised, loopVars>>

\* what the checks after the submit find: "yes" when the input field was
\* emptied or the comment is in the list, "no" when they find nothing or the
\* page operations raise (every one of them is inside a try / except)
RegistrationOutcomes == {"yes", "no"}

\* write_comment: the text is typed, the form is submitted (by the click,
\* or by the script when the click raises) and the checks of the
\* registration are made
Submit(registered) ==
    /\ pc = "final"
    /\ pc' = "submitted"
    /\ comment_registered' = registered
    /\ callRequests' = <<>>
    /\ UNCHANGED <<guardVars, cleanVars, callVars, openai_api_key, commented_posts,
                   commented_posts_file, processed_urls, returned, runs, runAttempts, post,
                   commentText, comment_source, written, raised, loopVars>>

\* the lines after the checks: the post is saved and the text recorded;
\* write_comment returns True, run() adds the post to processed_urls and
\* goes on to the next post PostGap seconds later
Recorded ==
    /\ save_commented_post(post)
    /\ processed_urls' = processed_urls \cup {post}
    /\ comment_history' =
           record_comment_usage(comment_history, now, min_repeat_interval, commentText)
    /\ recordLog' = Append(recordLog, [text |-> commentText, ts |-> now])
    /\ written' = TRUE
    /\ returned' = "written"
    /\ now' = now + PostGap
    /\ pc' = "run"
    /\ success_count' = success_count + 1
    /\ UNCHANGED <<min_repeat_interval, guardOp, recent, cleanVars, callVars, openai_api_key,
                   runs, runAttempts, post, commentText, comment_source, callRequests,
                   comment_registered, raised, max_posts,
                   max_board_pages, current_page, page_direction>>

\* a write_comment that returns False, and records nothing, when the checks
\* did not confirm the registration
FinishIfRegistered ==
    /\ pc = "submitted"
    /\ IF comment_registered = "yes" THEN Recorded
       ELSE /\ pc' = "run"
            /\ returned' = "failed"
            /\ UNCHANGED <<guardVars, cleanVars, callVars, openai_api_key, commented_posts,
                           commented_posts_file, processed_urls, runs, runAttempts, post,
                           commentText, comment_source, callRequests, written,
                           comment_registered, raised, loopVars>>

\* write_comment from "if comment_registered" to "return True": both
\* branches only print
Finish ==
    /\ pc = "submitted"
    /\ Recorded

\* write_comment: the page fails (no input field, no button, a closed page);
\* write_comment returns False, nothing is saved and the text is dropped
PageFails ==
    /\ pc = "final"
    /\ pc' = "run"
    /\ returned' = "failed"
    /\ commentText' = <<>>
    /\ comment_source' = "none"
    /\ callRequests' = <<>>
    /\ UNCHANGED <<guardVars, cleanVars, callVars, openai_api_key, commented_posts,
                   commented_posts_file, processed_urls, runs, runAttempts, post, written, comment_registered,
                   raised, loopVars>>

Next ==
    \/ \E p \in Posts, hours_ago \in PostAges : StartPost(p, hours_ago)
    \/ Generate
    \/ CleanAndCheck
    \/ AvoidRepeat
    \/ ToneAndClean
    \/ \E registered \in RegistrationOutcomes : Submit(registered)
    \/ Finish
    \/ PageFails

Spec == Init /\ [][Next]_vars

\* ------------------------------------------------------------------------
\* SpecRuns: the program is run again after it ended; the new process
\* loads commented_posts from the file and starts with an empty history
\* ------------------------------------------------------------------------

MaxRuns == 2

InitRuns ==
    /\ Init
    /\ openai_api_key = NoneKey
    /\ min_repeat_interval = 90

\* MacroBot.__init__ and the first lines of run() of the next process
Restart ==
    /\ pc = "run"
    /\ runs < MaxRuns
    /\ runs' = runs + 1
    /\ commented_posts' = load_commented_posts(commented_posts_file)
    /\ processed_urls' = load_commented_posts(commented_posts_file)
    /\ comment_history' = <<>>
    /\ runAttempts' = 0
    /\ success_count' = 0
    /\ current_page' = 1
    /\ page_direction' = 1
    /\ returned' = "none"
    /\ written' = FALSE
    /\ comment_registered' = "unset"
    /\ raised' = FALSE
    /\ commentText' = <<>>
    /\ comment_source' = "none"
    /\ callRequests' = <<>>
    /\ UNCHANGED <<min_repeat_interval, now, guardOp, recent, recordLog, cleanVars, callVars,
                   openai_api_key, commented_posts_file, pc, post,
                   max_posts, max_board_pages>>

NextRuns == Next \/ Restart

SpecRuns == InitRuns /\ [][NextRuns]_vars

\* ------------------------------------------------------------------------
\* SpecGen: the generation stage and the content loop of one write_comment
\* call, for every post of the board and every key
\* ------------------------------------------------------------------------

NextGen ==
    \/ \E p \in Posts, hours_ago \in PostAges : StartPost(p, hours_ago)
    \/ Generate

SpecGen == Init /\ [][NextGen]_vars

\* ------------------------------------------------------------------------
\* SpecCalls: one call of generate_ai_comment or of generate_ai_comment_retry
\* on its own, for every post of the board, every key and every retry_count
\* ------------------------------------------------------------------------

RetryCounts == {-1, 0, 1, 2}

InitCalls ==
    /\ LoopIdle
    /\ GuardIdle
    /\ CleanIdle
    /\ PipeIdle
    /\ CallIdle

\* await self.generate_ai_comment(post_content, existing_comments)
CallGenerate(p, api_key) ==
    /\ callOp = "none"
    /\ callOp' = "generate_ai_comment"
    /\ callIn' = [NoCall EXCEPT !.post = p, !.api_key = api_key]
    /\ callOut' \in Generators.generate[p][api_key]
    /\ UNCHANGED <<guardVars, cleanVars, pipeVars, callMid, loopVars>>

\* the generate_ai_comment_retry of a module whose style-matched comments
\* are `gen.style`
RetryOf(gen, p, retry_count, api_key) ==
    generate_ai_comment_retry(gen.style[p], Board[p].existing_comments, retry_count,
                              api_key)

\* await self.generate_ai_comment_retry(post_content, existing_comments, retry_count)
CallRetry(p, retry_count, api_key) ==
    /\ callOp = "none"
    /\ callOp' = "generate_ai_comment_retry"
    /\ callIn' = [NoCall EXCEPT !.post = p, !.api_key = api_key,
                                !.retry_count = retry_count]
    /\ callOut' \in RetryOf(Generators, p, retry_count, api_key)
    /\ UNCHANGED <<guardVars, cleanVars, pipeVars, callMid, loopVars>>

NextCalls ==
    \/ \E p \in Posts, api_key \in Keys : CallGenerate(p, api_key)
    \/ \E p \in Posts, retry_count \in RetryCounts, api_key \in Keys :
          CallRetry(p, retry_count, api_key)

SpecCalls == InitCalls /\ [][NextCalls]_vars

\* ------------------------------------------------------------------------
\* SpecStyle: one call of generate_style_matched_comment on its own
\* ------------------------------------------------------------------------

\* "o-neul-do jeong-mal su-go manh-eu-syeoss-eo-yo~", 14 characters
LongComment ==
    <<"o", "neul", "do", " ", "jeong", "mal", " ", "su", "go", "manh", "eu",
      "syeoss", "eo", "yo", "~">>

\* the lists of existing comments the generator is called with
StyleLists ==
    { <<>>,
      << <<"hwa", "i", "ting", "yo">> >>,
      << <<"h", "h", ".", ".">>, <<"gam", "sa", "hae", "yo">> >>,
      << <<"k", "k">> >>,
      << <<"k", "~">>, <<"h", "!">>, <<"T", "T">> >>,
      << LongComment >>,
      << <<"him", "nae", "se", "yo", "~">>, <<"a", "swib", "ne", "yo", "T">> >> }

\* the post bodies: without a sentiment token, with the loss token 'ilh', with
\* the gain token 'ttass', and the empty body
StyleBodies ==
    { LongBody,
      <<"don", "eul", " ", "ilh", "eoss", "eo", "yo">>,
      <<"o", "neul", " ", "ttass", "eo", "yo">>,
      <<>> }

\* self.generate_style_matched_comment(existing_comments, post_content)
CallStyle(existing_comments, post_content) ==
    /\ callOp = "none"
    /\ callOp' = "generate_style_matched_comment"
    /\ callIn' = [NoCall EXCEPT !.existing_comments = existing_comments,
                                !.post_content = post_content]
    /\ callOut' \in StyleResults(generate_style_matched_comment(existing_comments,
                                                                post_content), <<>>)
    /\ UNCHANGED <<guardVars, cleanVars, pipeVars, callMid, loopVars>>

NextStyle ==
    \E existing_comments \in StyleLists, post_content \in StyleBodies :
       CallStyle(existing_comments, post_content)

SpecStyle == InitCalls /\ [][NextStyle]_vars

\* ------------------------------------------------------------------------
\* SpecTone: one call of enhance_tone_variation on its own
\* ------------------------------------------------------------------------

\* the comments enhance_tone_variation is called with: short and long ones,
\* with and without an ending, with marks in front, inside and at the end
ToneTexts ==
    { <<"hwa", "i", "ting", "yo">>,
      <<"him", "nae", "se", "yo">>,
      <<"joh", "a", "yo", "~">>,
      <<"geu", "reoh", "gun">>,
      <<"jin", "jja", "yo", "?">>,
      <<"a", "swib", "da", "T", "T">>,
      <<"o", "neul", "do", "jeong", "mal", "su", "go", "manh", "eu", "syeoss", "eo", "yo">>,
      <<"o", "neul", "do", " ", "jeong", "mal", " ", "su", "go", "ha", "syeoss", "seub">>,
      <<"ga", "na", "da", "ra", "ma", "ba", "sa", "a", "ja", "cha">>,
      <<"ga", "na", "da", "ra", "ma", "ba", "sa", "a", "ja", " ", "hae", "yo", " ", "~">>,
      <<"~", " ", "ga", "na", "da", "ra", "ma", "ba", "sa", "a", "~", "~", "hae", "yo", "~">> }

\* the existing comments of the call: none, plain ones, decorated ones
ToneLists ==
    { <<>>,
      << <<"hwa", "i", "ting", "yo">> >>,
      << <<"him", "nae", "se", "yo", "~">>, <<"a", "swib", "ne", "yo", "T">> >> }

\* self.enhance_tone_variation(comment_text, post_content, existing_comments)
CallTone(comment_text, post_content, existing_comments) ==
    /\ callOp = "none"
    /\ callOp' = "enhance_tone_variation"
    /\ callIn' = [NoCall EXCEPT !.text = comment_text,
                                !.existing_comments = existing_comments,
                                !.post_content = post_content]
    /\ \E comment \in ToneTyped(comment_text, post_content, existing_comments) :
          /\ callMid' = comment
          /\ callOut' = [NoResult EXCEPT !.text = LimitLength(comment), !.by = "tone"]
    /\ UNCHANGED <<guardVars, cleanVars, pipeVars, loopVars>>

NextTone ==
    \E comment_text \in ToneTexts, post_content \in StyleBodies,
       existing_comments \in ToneLists :
       CallTone(comment_text, post_content, existing_comments)

SpecTone == InitCalls /\ [][NextTone]_vars

\* ------------------------------------------------------------------------
\* SpecEnsure: one call of ensure_non_repeating_comment on its own, one
\* minute after the comments of the history were recorded
\* ------------------------------------------------------------------------

\* the comments that were used, and the comment the call is made with
EnsureTexts ==
    { <<"hwa", "i", "ting", "yo">>,
      <<"hwa", "i", "ting", "yo", "!">>,
      <<"hwa", "i", "ting", "yo", "!", "~">>,
      <<"gam", "sa", "hae", "yo", "~">> }

\* the histories: at most two different comments, recorded at time 0
EnsureHistories ==
    {<<>>}
      \cup { <<[text |-> a, ts |-> 0]>> : a \in EnsureTexts }
      \cup { h \in { <<[text |-> a, ts |-> 0], [text |-> b, ts |-> 0]>> :
                          a \in EnsureTexts, b \in EnsureTexts } :
               h[1].text # h[2].text }

\* the configured interval: shorter and longer than the minute that passed
EnsureWindows == {30, 900}

InitEnsure ==
    /\ LoopIdle
    /\ comment_history \in EnsureHistories
    /\ min_repeat_interval \in EnsureWindows
    /\ now = 60
    /\ guardOp = "init"
    /\ recent = NoRecent
    /\ recordLog = comment_history
    /\ CleanIdle
    /\ PipeIdle
    /\ CallIdle

\* await self.ensure_non_repeating_comment(comment_text, post_content,
\* existing_comments) for the post p
CallEnsure(comment_text, p, api_key) ==
    /\ callOp = "none"
    /\ callOp' = "ensure_non_repeating_comment"
    /\ callIn' = [NoCall EXCEPT !.text = comment_text, !.post = p, !.api_key = api_key]
    /\ comment_history' =
           _cleanup_comment_history(comment_history, now, min_repeat_interval)
    /\ callOut' \in ensure_non_repeating_comment(comment_text, p, api_key, comment_history,
                                                 now, min_repeat_interval, Generators)
    /\ UNCHANGED <<min_repeat_interval, now, guardOp, recent, recordLog, cleanVars,
                   pipeVars, callMid, loopVars>>

\* the keys of the call: no key, and a key the service accepts
EnsureKeys == {k \in Keys : k.isNone \/ Strip(k.value) # <<>>}

\* the posts write_comment calls it for: those with comments and a body
EnsurePosts ==
    {p \in Posts : Board[p].existing_comments # <<>> /\ Board[p].post_content # <<>>}

NextEnsure ==
    \E comment_text \in EnsureTexts, p \in EnsurePosts, api_key \in EnsureKeys :
       CallEnsure(comment_text, p, api_key)

SpecEnsure == InitEnsure /\ [][NextEnsure]_vars

\* ------------------------------------------------------------------------
\* SpecAnalyze: one call of analyze_comment_style on its own
\* ------------------------------------------------------------------------

\* the existing comments of a post: with a two-syllable ending, with several
\* kinds of decoration, with a one-syllable ending, without an ending
AnalyzeComments ==
    { <<"joh", "ne", "yo">>,
      <<"gam", "sa", "hae", "yo", "~", "!">>,
      <<"him", "nae", "se", "yo", "T">>,
      <<"geu", "reoh", "jyo">>,
      <<"dae", "bak", "i", "da", "!">>,
      <<"k", "k">> }

\* the lists the function is called with
MaxComments == 3

AnalyzeLists == UNION {[1..n -> AnalyzeComments] : n \in 0..MaxComments}

\* self.analyze_comment_style(existing_comments): callMid is the list
\* `endings` after the loop, callOut the returned record
CallAnalyze(existing_comments) ==
    /\ callOp = "none"
    /\ callOp' = "analyze_comment_style"
    /\ callIn' = [NoCall EXCEPT !.existing_comments = existing_comments]
    /\ callMid' = StyleEndings(StyleSample(existing_comments))
    /\ callOut' = analyze_comment_style(existing_comments)
    /\ UNCHANGED <<guardVars, cleanVars, pipeVars, loopVars>>

NextAnalyze == \E existing_comments \in AnalyzeLists : CallAnalyze(existing_comments)

SpecAnalyze == InitCalls /\ [][NextAnalyze]_vars

\* ------------------------------------------------------------------------
\* switch_board_page and the main loop of run()
\* ------------------------------------------------------------------------

\* a switch_board_page that goes on to page 1 after the last page
switch_wraps_to_first(current, direction, config_pages) ==
    IF Max(1, config_pages) = 1
    THEN [result |-> FALSE, current_page |-> current, page_direction |-> direction]
    ELSE [result |-> TRUE,
          current_page |-> IF current + direction > Max(1, config_pages) THEN 1
                           ELSE Max(1, current + direction),
          page_direction |-> direction]

\* the lines after "if max_pages == 1": next_page, the two reversals and
\* the clamp of current_page
SwitchFrom(next_page, direction, max_pages) ==
    IF next_page > max_pages
    THEN [result |-> TRUE, page_direction |-> -1,
          current_page |-> Max(1, Min(max_pages, max_pages - 1))]
    ELSE IF next_page < 1
    THEN [result |-> TRUE, page_direction |-> 1,
          current_page |-> Max(1, Min(max_pages, 2))]
    ELSE [result |-> TRUE, page_direction |-> direction,
          current_page |-> Max(1, Min(max_pages, next_page))]

\* switch_board_page: what it returns and the fields it leaves
switch_board_page(current, direction, config_pages) ==
    IF Max(1, config_pages) = 1
    THEN [result |-> FALSE, current_page |-> current, page_direction |-> direction]
    ELSE SwitchFrom(current + direction, direction, Max(1, config_pages))

\* a loop condition without the test of attempts
loop_ignores_attempts(success, attempts, posts, config_pages) ==
    success < posts

\* while success_count < max_posts and attempts < max_attempts
LoopGoesOn(success, attempts, posts, config_pages) ==
    success < posts /\ attempts < posts * Max(1, config_pages) * 5

\* ------------------------------------------------------------------------
\* SpecPages: switch_board_page called again and again
\* ------------------------------------------------------------------------

\* the largest configured max_board_pages
MaxBoardPages == 8

InitPages ==
    /\ GuardIdle
    /\ CleanIdle
    /\ PipeIdle
    /\ CallIdle
    /\ max_posts = 10
    /\ max_board_pages \in 0..MaxBoardPages
    /\ current_page = 1
    /\ page_direction = 1
    /\ success_count = 0

\* await self.switch_board_page(reason): the fields are set before
\* navigate_to_board_page, which may raise
CallSwitch(navigation) ==
    /\ callOp' = "switch_board_page"
    /\ LET r == switch_board_page(current_page, page_direction, max_board_pages) IN
         /\ current_page' = r.current_page
         /\ page_direction' = r.page_direction
         /\ callOut' = [result |-> r.result, raised |-> r.result /\ navigation = "raises"]
    /\ UNCHANGED <<guardVars, cleanVars, pipeVars, callIn, callMid, max_posts,
                   max_board_pages, success_count>>

NextPages == \E navigation \in {"ok", "raises"} : CallSwitch(navigation)

SpecPages == InitPages /\ [][NextPages]_vars /\ WF_vars(NextPages)

\* ------------------------------------------------------------------------
\* SpecLoop: the main loop of run(), with get_next_post_link and
\* write_comment seen by what they return
\* ------------------------------------------------------------------------

\* the largest configured max_posts and max_board_pages of the loop
MaxPosts == 2

MaxLoopPages == 3

InitLoop ==
    /\ GuardIdle
    /\ CleanIdle
    /\ PipeIdle
    /\ CallIdle
    /\ max_posts \in 0..MaxPosts
    /\ max_board_pages \in 0..MaxLoopPages
    /\ current_page = 1
    /\ page_direction = 1
    /\ success_count = 0

\* an iteration in which get_next_post_link returns None: the loop goes on
\* when switch_board_page returns True, and ends when it returns False
\* (break) or when the navigation raises
NoPostIteration(navigation) ==
    /\ pc = "run"
    /\ LoopGoesOn(success_count, runAttempts, max_posts, max_board_pages)
    /\ runAttempts' = runAttempts + 1
    /\ returned' = "none"
    /\ LET r == switch_board_page(current_page, page_direction, max_board_pages) IN
         /\ current_page' = r.current_page
         /\ page_direction' = r.page_direction
         /\ pc' = IF r.result /\ navigation = "ok" THEN "run" ELSE "ended"
    /\ UNCHANGED <<guardVars, cleanVars, callVars, openai_api_key, commented_posts,
                   commented_posts_file, processed_urls, runs, post, commentText,
                   comment_source, callRequests, written, comment_registered, raised,
                   max_posts, max_board_pages, success_count>>

\* an iteration in which write_comment is called and returns comment_result
PostIteration(comment_result) ==
    /\ pc = "run"
    /\ LoopGoesOn(success_count, runAttempts, max_posts, max_board_pages)
    /\ runAttempts' = runAttempts + 1
    /\ returned' = IF comment_result THEN "written" ELSE "failed"
    /\ success_count' = IF comment_result THEN success_count + 1 ELSE success_count
    /\ UNCHANGED <<guardVars, cleanVars, callVars, openai_api_key, commented_posts,
                   commented_posts_file, processed_urls, runs, pc, post, commentText,
                   comment_source, callRequests, written, comment_registered, raised,
                   max_posts, max_board_pages, current_page, page_direction>>

\* the loop condition fails
LoopEnds ==
    /\ pc = "run"
    /\ ~LoopGoesOn(success_count, runAttempts, max_posts, max_board_pages)
    /\ pc' = "ended"
    /\ UNCHANGED <<guardVars, cleanVars, callVars, openai_api_key, commented_posts,
                   commented_posts_file, processed_urls, returned, runs, runAttempts, post,
                   commentText, comment_source, callRequests, written, comment_registered,
                   raised, loopVars>>

NextLoop ==
    \/ \E navigation \in {"ok", "raises"} : NoPostIteration(navigation)
    \/ \E comment_result \in BOOLEAN : PostIteration(comment_result)
    \/ LoopEnds

SpecLoop == InitLoop /\ [][NextLoop]_vars /\ WF_vars(NextLoop)

\* ------------------------------------------------------------------------
\* Claims
\* ------------------------------------------------------------------------

\* C1: clean_comment is idempotent: cleaning a cleaned text changes nothing.
C1_Idempotent == cleanPc = "twice" => cleanTwice = cleanOut

\* the record_comment_usage calls made with the text of the last check
RecordsOf(text) == SelectSeq(recordLog, LAMBDA e : e.text = text)

\* C8: for a text recorded once at t0, is_comment_recent at time t returns
\* (True, W - (t - t0)) while t - t0 < W and (False, 0) from t - t0 = W on;
\* a text that was never recorded (one that differs from the recorded ones,
\* be it by one character) gives (False, 0).
C8_RecentWindow ==
    guardOp = "check" =>
        LET recs == RecordsOf(recent.text)
            age  == now - recs[1].ts
        IN  /\ Len(recs) = 1 /\ age < min_repeat_interval =>
                /\ recent.is_recent
                /\ recent.remaining = min_repeat_interval - age
            /\ Len(recs) = 1 /\ age >= min_repeat_interval =>
                /\ ~recent.is_recent
                /\ recent.remaining = 0
            /\ Len(recs) = 0 => ~recent.is_recent /\ recent.remaining = 0

\* a check, some time after the only recording of the text and inside the
\* window, while the text that differs by one character is in the history
C8_Witness ==
    /\ guardOp = "check"
    /\ Len(RecordsOf(recent.text)) = 1
    /\ now > RecordsOf(recent.text)[1].ts
    /\ recent.is_recent
    /\ recent.remaining < min_repeat_interval
    /\ \E i \in 1..Len(comment_history) :
          /\ comment_history[i].text # recent.text
          /\ Len(comment_history[i].text) = Len(recent.text)

\* C9: right after record_comment_usage or is_comment_recent the history
\* holds no entry whose age is max(min_repeat_interval, 60) seconds or more.
C9_NoOldEntry ==
    guardOp \in {"record", "check"} =>
        \A i \in 1..Len(comment_history) :
            now - comment_history[i].ts < Max(min_repeat_interval, MinKeep)

\* a call that purged an entry, under a window shorter than 60 seconds, and
\* kept an entry that is older than the window
C9_Witness ==
    /\ guardOp \in {"record", "check"}
    /\ min_repeat_interval < MinKeep
    /\ \E i \in 1..Len(recordLog) : now - recordLog[i].ts >= MinKeep
    /\ \E i \in 1..Len(comment_history) :
          now - comment_history[i].ts >= min_repeat_interval
          /\ now - comment_history[i].ts > 0

\* C2: every text write_comment types into the comment field has at most as
\* many characters as the length budget of the post, the value of
\* get_optimal_comment_length for its existing comments.
C2_LengthBudget ==
    written =>
        Len(commentText) <= get_optimal_comment_length(Board[post].existing_comments)

\* C3: no text write_comment submits contains "gam-sa" or another entry of
\* the forbidden list, compared in lower case, whichever path produced it.
C3_NoForbidden == written => ~IsForbidden(commentText)

\* C4: the generators return without raising for every answer of the
\* service, and the generation stage of write_comment ends holding a comment
\* for which has_meaningful_content is true.
C4_Total == ~raised /\ (pc = "content" => has_meaningful_content(commentText))

\* the generation stage ended with the default comment after requests that
\* gave no usable comment
C4_Witness ==
    /\ pc = "content"
    /\ comment_source = "default"
    /\ Len(callRequests) >= 2
    /\ \E i \in 1..Len(callRequests) : callRequests[i] \in {"timeout", "error"}

\* C5: once a request was answered 401 no further request is sent: a 401 is
\* the last answer of the requests a stage of write_comment sends.
C5_NoRequestAfter401 ==
    \A i \in 1..Len(callRequests) : callRequests[i] = "401" => i = Len(callRequests)

\* C6: with a key that is None, empty or only whitespace no request is sent
\* on any path.
C6_NoRequestWithoutKey ==
    (openai_api_key.isNone \/ Strip(openai_api_key.value) = <<>>) => callRequests = <<>>

\* C7: write_comment never submits a text that record_comment_usage recorded
\* less than min_repeat_interval seconds earlier.
C7_NoRecentRepeat ==
    \A i, j \in 1..Len(recordLog) :
        i < j /\ recordLog[i].text = recordLog[j].text
            => recordLog[j].ts - recordLog[i].ts >= min_repeat_interval

\* C10: when the first request of the generation stage ends in a timeout, a
\* 429 or a 5xx, at least one more request is sent before the stage takes the
\* comment of generate_style_matched_comment.
C10_RetriesTransient ==
    pc = "content" /\ comment_source = "style" /\ callRequests # <<>>
        /\ callRequests[1] \in {"timeout", "429", "500"}
      => Len(callRequests) >= 2

\* C11: a reply of the service without the reason marker or without the
\* comment marker is never the comment a generator returns: when the text of
\* the generation stage comes from a reply to the retry, that reply (the last
\* request of the stage) has both markers.
C11_MalformedNeverUsed ==
    pc = "content" /\ comment_source = "retry" /\ callRequests # <<>>
        => callRequests[Len(callRequests)] # "unmarked"

\* C12: one generate_ai_comment call sends at most 3 requests (the first one
\* and at most the 2 extra attempts); generate_ai_comment_retry never calls
\* itself, so one call of it sends at most one request; called with
\* retry_count <= 0 it sends no request and returns the style-matched comment.
C12_BoundedRetries ==
    /\ callOp = "generate_ai_comment" => Len(callOut.requests) <= 3
    /\ callOp = "generate_ai_comment_retry" =>
          /\ Len(callOut.requests) <= 1
          /\ callIn.retry_count <= 0 =>
                callOut.requests = <<>> /\ callOut.by = "style"

\* a rejected reply, one more request, a rejected reply again: the
\* style-matched comment is returned
C12_Witness ==
    /\ callOp = "generate_ai_comment"
    /\ callOut.requests = <<"200", "200">>
    /\ callOut.by = "style"

\* a text of 3 or more characters without its trailing decoration ends in
\* a known sentence-final particle
EndsInParticle(text) ==
    LET clean == Strip(RStripSet(text, Decorations)) IN
    Len(clean) >= 3 => EndingOf(clean) # <<>>

\* C13: every text generate_style_matched_comment returns has at most 10
\* characters, contains no forbidden phrase, satisfies
\* has_meaningful_content and, when 3 or more characters remain without the
\* trailing decoration, ends in a known sentence-final particle.
C13_FallbackValid ==
    callOp = "generate_style_matched_comment" =>
        /\ Len(callOut.text) <= 10
        /\ ~IsForbidden(callOut.text)
        /\ has_meaningful_content(callOut.text)
        /\ EndsInParticle(callOut.text)

\* the words of the bucket of a post body, as they are or with the typo the
\* tone step can put into them
BucketForms(post_content) ==
    UNION {add_natural_typos(b) : b \in base_comments(post_content)}

\* C14: every text generate_style_matched_comment returns is built from
\* the bucket of the sentiment of the post body (congratulation for a gain
\* token, commiseration for a loss token, the neutral bucket otherwise),
\* whatever the existing comments are (stated here for the posts that have
\* comments; without any the generator returns its fixed default).
C14_BucketBySentiment ==
    callOp = "generate_style_matched_comment" /\ callIn.existing_comments # <<>> =>
        ContainsAny(callOut.text, BucketForms(callIn.post_content))

\* the known sentence-final particle a text ends in without its trailing
\* decoration, <<>> when it ends in none
ParticleOf(text) == EndingOf(Strip(RStripSet(text, Decorations)))

\* C15: when the length cut shortens a text of more than 10 characters that
\* ends, without its trailing decoration, in a known particle, the result
\* without its trailing decoration still ends in that particle and the
\* trailing decoration of the text is the trailing decoration of the result.
C15_CutKeepsEnding ==
    callOp = "enhance_tone_variation" /\ Len(callMid) > ToneLimit
      /\ ParticleOf(callMid) # <<>>
      => /\ EndsWith(Strip(RStripSet(callOut.text, Decorations)), ParticleOf(callMid))
         /\ EndsWith(callOut.text,
                     From(callMid, Len(RStripSet(callMid, Decorations)) + 1))

\* C20: enhance_tone_variation keeps the ending complete: when its argument
\* without the trailing decoration ends in a known sentence-final particle,
\* so does every text it can return.
C20_EndingComplete ==
    callOp = "enhance_tone_variation" /\ ParticleOf(callIn.text) # <<>>
      => ParticleOf(callOut.text) # <<>>

\* C16: the result of clean_comment contains no period and no doubled
\* sentence-final particle: no "yo-yo", and no known particle immediately
\* followed by a second one at the end of the text or before the question
\* mark that ends it; "geu-reoh-ne-yo-yo-yo." becomes "geu-reoh-ne-yo".
C16_NoPeriodNoDoubledEnding ==
    cleanPc # "new" =>
        /\ ~HasChar(cleanOut, ".")
        /\ ~Contains(cleanOut, <<"yo", "yo">>)
        /\ \A p \in 1..Len(cleanOut) : ~DoubleEndingAt(cleanOut, p, TRUE)
        /\ cleanIn = <<"geu", "reoh", "ne", "yo", "yo", "yo", ".">>
              => cleanOut = <<"geu", "reoh", "ne", "yo">>

\* C17: when write_comment has ended with success or with a deliberate skip
\* (a post older than 24 hours, a post without comments, an irrelevant
\* comment), the URL of the post is in commented_posts and in the file.
C17_SavedOnReturn ==
    returned \in {"written", "old", "no_comments", "irrelevant"} =>
        /\ post \in commented_posts
        /\ post \in load_commented_posts(commented_posts_file)

\* C18: whenever run() passes a post to write_comment (an attempt is
\* counted), the post get_next_post_link returned was not in
\* commented_posts, not in processed_urls and not in the file before the
\* call, in the first run and in a run that reloaded the file.
C18_NeverHandledAgain ==
    [][runAttempts' = runAttempts + 1 =>
          /\ post' \notin commented_posts
          /\ post' \notin processed_urls
          /\ post' \notin load_commented_posts(commented_posts_file)]_vars

\* the second run, which loaded two recorded posts from the file, has
\* passed the third post to write_comment
C18_Witness ==
    /\ runs = 2
    /\ pc = "open"
    /\ Cardinality(commented_posts) = 2
    /\ commented_posts = processed_urls

\* C19: called with a comment that was used within the interval,
\* ensure_non_repeating_comment returns a text that was not: at its return
\* is_comment_recent of the result is false.
C19_ResultNotRecent ==
    callOp = "ensure_non_repeating_comment"
      /\ is_comment_recent(comment_history, now, min_repeat_interval, callIn.text).is_recent
      => ~is_comment_recent(comment_history, now, min_repeat_interval,
                            callOut.text).is_recent

\* the comment carries none of the marks ~ ! and crying jamo, so that the
\* block that adds a mark is entered
Unmarked(comment) ==
    ~(HasChar(comment, "~") \/ HasChar(comment, "!") \/ HasChar(comment, "T"))

\* C21: when the comment without a mark has 10 characters or more, so that
\* every mark appended to it would exceed 10 characters, the block that adds
\* the mark adds nothing: the comment that reaches the length cut is the
\* stripped argument, but for the typo add_natural_typos may make.
C21_NothingAddedOverBudget ==
    callOp = "enhance_tone_variation" /\ Unmarked(callIn.text)
      /\ Len(Strip(callIn.text)) >= ToneLimit
      => callMid \in add_natural_typos(Strip(callIn.text))

\* the two-syllable endings X + "yo" the function knows
TwoSyllableEndings == {<<x, "yo">> : x \in CutStems}

\* the comments that are counted whose text without the decorations at its
\* end ends in the ending
CountEnding(existing_comments, e) ==
    CountWhere(StyleSample(existing_comments),
               LAMBDA c : EndsWith(RStripSet(Strip(c), Decorations), e))

\* C22: analyze_comment_style tallies every counted comment under the
\* longest known ending it ends in: the tally of each two-syllable ending
\* (ne-yo, eo-yo, hae-yo, ...) is the number of comments that end in it, and
\* none of these comments is tallied under "yo".
C22_LongestEndingTallied ==
    callOp = "analyze_comment_style" =>
        /\ \A e \in TwoSyllableEndings :
              Tally(callMid, e) = CountEnding(callIn.existing_comments, e)
        /\ Tally(callMid, <<"yo">>) + Cardinality({i \in 1..Len(callMid) :
                                                     callMid[i] \in TwoSyllableEndings})
              = CountEnding(callIn.existing_comments, <<"yo">>)

\* C23: a non-empty dominant ending is shared by a majority: its tally is
\* greater than half the number of counted comments; otherwise the returned
\* ending is empty.
C23_DominantIsMajority ==
    callOp = "analyze_comment_style" /\ callOut.ending # <<>>
      => 2 * Tally(callMid, callOut.ending) > callOut.total_comments

\* C24: emoji_usage_rate = has_emoji_count / total_comments lies in [0, 1]:
\* the number of comments counted as decorated is at most the number of
\* counted comments.
C24_RateAtMostOne ==
    callOp = "analyze_comment_style" =>
        /\ callOut.emoji_count >= 0
        /\ callOut.emoji_count <= callOut.total_comments

\* C25: is_comment_relevant_to_post returns True for a non-empty comment
\* whenever the body of the post has fewer than 5 characters left without
\* the filler characters, the empty body included: write_comment does not
\* leave such a post as irrelevant when its comment is not empty.
C25_ShortBodyRelevant ==
    returned = "irrelevant" /\ commentText # <<>>
      => Len(RelevanceClean(Board[post].post_content)) >= 5

C27_FreshCommentUntouched ==
    [][callOp' = "ensure_non_repeating_comment"
         /\ (\A i \in 1..Len(comment_history) :
                comment_history[i].text = callIn'.text
                  => now - comment_history[i].ts >= min_repeat_interval)
       => /\ callOut'.text = callIn'.text
          /\ callOut'.requests = <<>>
          /\ ~callOut'.raised
          /\ comment_history' =
                SelectSeq(comment_history,
                          LAMBDA e : now - e.ts < Max(min_repeat_interval, MinKeep))]_vars

\* the comment of the call was recorded a minute ago, longer than the
\* interval: the call returned it, and the record and one of another
\* comment were purged
C27_Witness ==
    /\ callOp = "ensure_non_repeating_comment"
    /\ callOut.text = callIn.text
    /\ callOut.requests = <<>>
    /\ Len(recordLog) = 2
    /\ \E i \in 1..Len(recordLog) : recordLog[i].text = callIn.text
    /\ comment_history = <<>>

\* C28: a post whose form is submitted was not recorded before, and when
\* write_comment returns after the submit, whether the checks confirmed the
\* registration or found nothing or raised, the post is in commented_posts
\* and in the file and the last entry of comment_history is the submitted
\* text with the time of the call, so that the text counts as recent.
C28_SubmittedIsRecorded ==
    /\ pc = "submitted" => post \notin commented_posts /\ post \notin processed_urls
    /\ pc = "run" /\ comment_registered # "unset" =>
          /\ returned = "written"
          /\ post \in commented_posts
          /\ post \in load_commented_posts(commented_posts_file)
          /\ post \in processed_urls
          /\ comment_history # <<>>
          /\ comment_history[Len(comment_history)] =
                [text |-> commentText, ts |-> now - PostGap]
          /\ is_comment_recent(comment_history, now - PostGap, min_repeat_interval,
                               commentText).is_recent

\* the second comment of the run was submitted, the checks did not confirm
\* its registration, and write_comment returned
C28_Witness ==
    /\ pc = "run"
    /\ comment_registered = "no"
    /\ returned = "written"
    /\ Len(recordLog) = 2
    /\ Cardinality(processed_urls) = 2

\* C29: the main loop of run() ends; attempts never exceeds
\* max_posts * max_board_pages * 5, success_count never exceeds max_posts,
\* and success_count grows, by one, in exactly the iterations in which
\* write_comment returned True.
C29_LoopTerminates ==
    /\ [](/\ runAttempts <= max_posts * Max(1, max_board_pages) * 5
          /\ success_count <= max_posts)
    /\ [][/\ success_count' \in {success_count, success_count + 1}
          /\ success_count' = success_count + 1
                <=> runAttempts' = runAttempts + 1 /\ returned' = "written"]_vars
    /\ <>[](pc = "ended")

\* the loop ended after max_posts * max_board_pages * 5 = 30 iterations
\* with one comment written of the two asked for
C29_Witness ==
    /\ pc = "ended"
    /\ max_posts = 2
    /\ max_board_pages = 3
    /\ runAttempts = max_posts * max_board_pages * 5
    /\ success_count = 1

\* C30: after every sequence of switch_board_page calls current_page is
\* within 1..max_board_pages and page_direction is 1 or -1; with one page a
\* call returns False and changes nothing; with two pages or more a call
\* returns True, moves to an adjacent page in the direction it leaves, and
\* reverses the direction exactly when the next page would be outside
\* 1..max_board_pages; every page is shown again and again.
C30_PingPong ==
    /\ [](/\ current_page \in 1..Max(1, max_board_pages)
          /\ page_direction \in {1, -1})
    /\ [][callOp' = "switch_board_page" =>
            IF Max(1, max_board_pages) = 1
            THEN ~callOut'.result /\ UNCHANGED <<current_page, page_direction>>
            ELSE /\ callOut'.result
                 /\ current_page' - current_page = page_direction'
                 /\ page_direction' = -page_direction
                       <=> current_page + page_direction \notin 1..max_board_pages]_vars
    /\ \A k \in 1..MaxBoardPages :
          [](max_board_pages >= 2 /\ k <= max_board_pages => <>(current_page = k))

\* with three pages the direction was reversed at the last page and the
\* call went back to page 2
C30_Witness ==
    /\ callOp = "switch_board_page"
    /\ max_board_pages = 3
    /\ current_page = 2
    /\ page_direction = -1
    /\ callOut.result

====
